---- MODULE Spec2Model ----
(***************************************************************************)
(* Model of runtime/src/trade.rs: the limit-order book of the trade        *)
(* module (price ladder, order store, matcher, trade ledger, pair          *)
(* registry).  Storage maps are functions with a growing domain; every     *)
(* dispatchable call is one action whose next state is computed by         *)
(* operators translated from the functions of the source.                  *)
(***************************************************************************)
EXTENDS Integers, Sequences, FiniteSets, TLC

(* ---------------------------------------------------------------------- *)
(* Constants of the program and bounds of the model                        *)
(* ---------------------------------------------------------------------- *)

\* const price_factor: u64 = 100_000_000
price_factor == 100000000

\* Prices of the model are multiples of half a price_factor.
PriceUnit == price_factor \div 2

\* Price::max_value() is MaxPriceUnits price units: the Price type of the
\* model is narrowed so that its largest value is a price orders can carry.
MaxPriceUnits == 4

\* Largest sell_amount a call carries.
MaxAmount == 3

\* Number of create_limit_order calls that reach the order store.
MaxOrders == 3

\* The random seed of the block takes the values 0..MaxSeed.
MaxSeed == 1

\* Free balance of every account in every token at the start.
InitBalance == 5

\* Price::min_value() and Price::max_value()
PMIN == 0

PMAX == MaxPriceUnits * PriceUnit

\* Option<Price>::None, the key of Head
None == 0 - 1

Accounts == {"alice", "bob"}

\* callers of create_trade_pair: alice owns t1, carol owns no token
Senders == {"alice", "carol"}

Tokens == {"t1", "t2"}

\* "tx" is a token hash nobody issued
TokenInputs == Tokens \cup {"tx"}

\* orders are placed on the pair (t1, t2)
OrderBases == {"t1"}

OrderQuotes == {"t2"}

PriceInputs == {0} \cup {k * PriceUnit : k \in 2..MaxPriceUnits}

AmountInputs == 0..MaxAmount

OrderTypes == {"Buy", "Sell"}

\* impl Not for OrderType
NotType(otype) == IF otype = "Sell" THEN "Buy" ELSE "Sell"

(* ---------------------------------------------------------------------- *)
(* Storage maps                                                            *)
(* ---------------------------------------------------------------------- *)

Has(m, k) == k \in DOMAIN m

Put(m, k, v) == [x \in (DOMAIN m) \cup {k} |-> IF x = k THEN v ELSE m[x]]

Del(m, k) == [x \in (DOMAIN m) \ {k} |-> m[x]]

\* Option<Vec<_>> read with "absence is empty"
GetVec(m, k) == IF Has(m, k) THEN m[k] ELSE << >>

\* u64 index maps read with the default 0
GetIdx(m, k) == IF Has(m, k) THEN m[k] ELSE 0

EmptyMap == [x \in {} |-> 0]

(* ---------------------------------------------------------------------- *)
(* Arithmetic                                                              *)
(* ---------------------------------------------------------------------- *)

RECURSIVE GCD(_, _)
GCD(a, b) == IF b = 0 THEN a ELSE GCD(b, a % b)

\* a * b1 / c1 for coprime b1 and c1, without forming the product:
\* with a = q * c1 + r the quotient is q * b1 + (r * b1) / c1
MulDivReduced(a, b1, c1) == (a \div c1) * b1 + ((a % c1) * b1) \div c1

\* a * b / c as the source computes it in U256 (truncating division of the
\* full product, which 256 bits always hold).  The common factor of b and c
\* is cancelled first, which leaves the quotient unchanged and keeps every
\* intermediate value in the range of TLC.
MulDiv(a, b, c) == MulDivReduced(a, b \div GCD(b, c), c \div GCD(b, c))

\* half a machine word of the model: 2^15
HalfWord == 32768

\* u64::max_value() of the model: the 64-bit word is narrowed to 30 bits,
\* wide enough that no product of the amounts and prices of Spec wraps
U64MAX == HalfWord * HalfWord - 1

\* As<u64>::as_() of a balance: the low 64 bits
as_(x) == x % (U64MAX + 1)

\* a * b in u64 where the build does not check overflow: the product wraps.
\* The low word of the product is formed from the half words of a and b.
WrapMul(a, b) ==
    as_((((a \div HalfWord) * (b % HalfWord) + (a % HalfWord) * (b \div HalfWord))
            % HalfWord) * HalfWord
        + (a % HalfWord) * (b % HalfWord))

\* a * b exceeds u64::max_value()
MulOverflows(a, b) == a # 0 /\ b > U64MAX \div a

(* ---------------------------------------------------------------------- *)
(* Token module (crate::token): freeze, unfreeze, transfer, owner          *)
(* ---------------------------------------------------------------------- *)

\* token::Module::owner: alice issued t1, bob issued t2
TokenOwner == [t \in Tokens |-> IF t = "t1" THEN "alice" ELSE "bob"]

ensure_free_balance(s, who, tok, amt) == s.free[<<who, tok>>] >= amt

do_freeze(s, who, tok, amt) ==
    IF s.free[<<who, tok>>] >= amt
    THEN [ok |-> TRUE,
          s  |-> [s EXCEPT !.free[<<who, tok>>] = @ - amt,
                           !.frozen[<<who, tok>>] = @ + amt]]
    ELSE [ok |-> FALSE, s |-> s]

do_unfreeze(s, who, tok, amt) ==
    IF s.frozen[<<who, tok>>] >= amt
    THEN [ok |-> TRUE,
          s  |-> [s EXCEPT !.frozen[<<who, tok>>] = @ - amt,
                           !.free[<<who, tok>>] = @ + amt]]
    ELSE [ok |-> FALSE, s |-> s]

do_transfer(s, from, to, tok, amt) ==
    IF s.free[<<from, tok>>] >= amt
    THEN [ok |-> TRUE,
          s  |-> [s EXCEPT !.free = [[@ EXCEPT ![<<from, tok>>] = @ - amt]
                                        EXCEPT ![<<to, tok>>] = @ + amt]]]
    ELSE [ok |-> FALSE, s |-> s]

(* ---------------------------------------------------------------------- *)
(* Hashes: the hashed tuple stands for its hash                            *)
(* ---------------------------------------------------------------------- *)

\* LimitOrder::new: (base, quote, price, sell_amount, buy_amount, owner, random_seed)
OrderHash(base, quote, price, sell_amount, buy_amount, owner, seed_) ==
    <<"order", base, quote, price, sell_amount, buy_amount, owner, seed_>>

\* Trade::new: (base, quote, base_amount, quote_amount, nonce, random_seed)
TradeHash(base, quote, base_amount, quote_amount, nonce, seed_) ==
    <<"trade", base, quote, base_amount, quote_amount, nonce, seed_>>

\* do_create_trade_pair: (base, quote, nonce, sender, random_seed)
PairHash(base, quote, nonce, sender, seed_) ==
    <<"pair", base, quote, nonce, sender, seed_>>

(* ---------------------------------------------------------------------- *)
(* LimitOrder                                                              *)
(* ---------------------------------------------------------------------- *)

LimitOrder_new(base, quote, owner, price, sell_amount, buy_amount, otype, seed_) ==
    [hash   |-> OrderHash(base, quote, price, sell_amount, buy_amount, owner, seed_),
     base   |-> base,
     quote  |-> quote,
     owner  |-> owner,
     price  |-> price,
     otype  |-> otype,
     sell_amount |-> sell_amount,
     buy_amount  |-> buy_amount,
     status |-> "Created",
     remained_sell_amount |-> sell_amount,
     remained_buy_amount  |-> buy_amount]

is_finished(order) ==
    \/ (order.remained_buy_amount = 0 /\ order.status = "Filled")
    \/ order.status = "Canceled"

(* ---------------------------------------------------------------------- *)
(* LinkedList: the price ladder                                            *)
(* ---------------------------------------------------------------------- *)

BottomItem == [prev |-> PMAX, next |-> None, price |-> PMIN, orders |-> << >>]

TopItem == [prev |-> None, next |-> PMIN, price |-> PMAX, orders |-> << >>]

HeadItem == [prev |-> PMIN, next |-> PMAX, price |-> None, orders |-> << >>]

\* the keys read_head, read_bottom and read_top read
SentinelKeys == {None, PMIN, PMAX}

\* LinkedList::write on the ladder map L
write(L, key1, key2, item) == Put(L, <<key1, key2>>, item)

\* LinkedList::read: the stored item, or else the head item is written
\* under key2, Bottom and Top are written, and the head item is returned
read(L, key1, key2) ==
    IF Has(L, <<key1, key2>>)
    THEN [L |-> L, item |-> L[<<key1, key2>>]]
    ELSE [L |-> write(write(write(L, key1, key2, HeadItem),
                            key1, BottomItem.price, BottomItem),
                      key1, TopItem.price, TopItem),
          item |-> HeadItem]

read_head(L, key1) == read(L, key1, None)

read_bottom(L, key1) == read(L, key1, PMIN)

read_top(L, key1) == read(L, key1, PMAX)

\* the while loop of append: walk next from item until the end item or a
\* larger price
RECURSIVE append_walk(_, _, _, _, _)
append_walk(L, key1, key2, end_item, item) ==
    IF item.next = end_item THEN [L |-> L, item |-> item]
    ELSE IF item.next # None /\ key2 < item.next THEN [L |-> L, item |-> item]
    ELSE LET r == read(L, key1, item.next)
         IN  append_walk(r.L, key1, key2, end_item, r.item)

\* append that pushes to the front of an existing level's queue
append_at_front(L, key1, key2, order_hash, otype) ==
    IF Has(L, <<key1, key2>>)
    THEN write(L, key1, key2,
               [L[<<key1, key2>>] EXCEPT !.orders = <<order_hash>> \o @])
    ELSE LET r0       == read(L, key1, IF otype = "Buy" THEN PMIN ELSE None)
             w        == append_walk(r0.L, key1, key2,
                                     IF otype = "Buy" THEN None ELSE PMAX, r0.item)
             new_prev == [w.item EXCEPT !.next = key2]
             L1       == write(w.L, key1, new_prev.price, new_prev)
             rn       == read(L1, key1, w.item.next)
             new_next == [rn.item EXCEPT !.prev = key2]
             L2       == write(rn.L, key1, new_next.price, new_next)
         IN  write(L2, key1, key2,
                   [prev |-> new_prev.price, next |-> new_next.price,
                    price |-> key2, orders |-> <<order_hash>>])

\* append that links a new level right after the start item, without the walk
append_no_walk(L, key1, key2, order_hash, otype) ==
    IF Has(L, <<key1, key2>>)
    THEN write(L, key1, key2,
               [L[<<key1, key2>>] EXCEPT !.orders = Append(@, order_hash)])
    ELSE LET r0       == read(L, key1, IF otype = "Buy" THEN PMIN ELSE None)
             new_prev == [r0.item EXCEPT !.next = key2]
             L1       == write(r0.L, key1, new_prev.price, new_prev)
             rn       == read(L1, key1, r0.item.next)
             new_next == [rn.item EXCEPT !.prev = key2]
             L2       == write(rn.L, key1, new_next.price, new_next)
         IN  write(L2, key1, key2,
                   [prev |-> new_prev.price, next |-> new_next.price,
                    price |-> key2, orders |-> <<order_hash>>])

append(L, key1, key2, order_hash, otype) ==
    IF Has(L, <<key1, key2>>)
    THEN write(L, key1, key2,
               [L[<<key1, key2>>] EXCEPT !.orders = Append(@, order_hash)])
    ELSE LET start_item == IF otype = "Buy" THEN PMIN ELSE None
             end_item   == IF otype = "Buy" THEN None ELSE PMAX
             r0       == read(L, key1, start_item)
             w        == append_walk(r0.L, key1, key2, end_item, r0.item)
             item     == w.item
             new_prev == [item EXCEPT !.next = key2]
             L1       == write(w.L, key1, new_prev.price, new_prev)
             rn       == read(L1, key1, item.next)
             new_next == [rn.item EXCEPT !.prev = key2]
             L2       == write(rn.L, key1, new_next.price, new_next)
         IN  write(L2, key1, key2,
                   [prev |-> new_prev.price, next |-> new_next.price,
                    price |-> key2, orders |-> <<order_hash>>])

\* the while loop of remove_item: pop finished orders from the front,
\* writing the item after every pop; stop with an error at an order that is
\* not finished
RECURSIVE remove_pop(_, _, _, _, _)
remove_pop(L, Ords, key1, key2, item) ==
    IF Len(item.orders) = 0 THEN [ok |-> TRUE, L |-> L, item |-> item]
    ELSE IF ~Has(Ords, item.orders[1]) THEN [ok |-> FALSE, L |-> L, item |-> item]
    ELSE IF ~is_finished(Ords[item.orders[1]]) THEN [ok |-> FALSE, L |-> L, item |-> item]
    ELSE LET item1 == [item EXCEPT !.orders = Tail(@)]
         IN  remove_pop(write(L, key1, key2, item1), Ords, key1, key2, item1)

\* S::mutate((key1, k), f) where f changes a stored item only
mutate_item(L, key1, k, field, v) ==
    IF Has(L, <<key1, k>>)
    THEN Put(L, <<key1, k>>, [L[<<key1, k>>] EXCEPT ![field] = v])
    ELSE L

remove_item(L, Ords, key1, key2) ==
    IF ~Has(L, <<key1, key2>>) THEN [ok |-> TRUE, L |-> L]
    ELSE LET p == remove_pop(L, Ords, key1, key2, L[<<key1, key2>>])
         IN  IF ~p.ok THEN [ok |-> FALSE, L |-> p.L]
             ELSE IF Has(p.L, <<key1, key2>>)
                  THEN LET item == p.L[<<key1, key2>>]
                           L1 == Del(p.L, <<key1, key2>>)
                           L2 == mutate_item(L1, key1, item.prev, "next", item.next)
                           L3 == mutate_item(L2, key1, item.next, "prev", item.prev)
                       IN  [ok |-> TRUE, L |-> L3]
                  ELSE [ok |-> TRUE, L |-> p.L]

RECURSIVE remove_items_loop(_, _, _, _, _)
remove_items_loop(L, Ords, key1, otype, end_item) ==
    LET h    == read_head(L, key1)
        key2 == IF otype = "Buy" THEN h.item.prev ELSE h.item.next
    IN  IF key2 = end_item THEN [ok |-> TRUE, L |-> h.L]
        ELSE LET r == remove_item(h.L, Ords, key1, key2)
             IN  IF ~r.ok THEN [ok |-> FALSE, L |-> r.L]
                 ELSE remove_items_loop(r.L, Ords, key1, otype, end_item)

\* remove_items that stops at the sentinel of the other side
remove_items_other_end(L, Ords, key1, otype) ==
    remove_items_loop(L, Ords, key1, otype, IF otype = "Buy" THEN PMAX ELSE PMIN)

remove_items(L, Ords, key1, otype) ==
    remove_items_loop(L, Ords, key1, otype, IF otype = "Buy" THEN PMIN ELSE PMAX)

(* ---------------------------------------------------------------------- *)
(* Module functions: validation and trade sizing                           *)
(* ---------------------------------------------------------------------- *)

ensure_bonds(price, sell_amount) ==
    /\ price > 0 /\ price <= PMAX
    /\ sell_amount > 0

\* the U256 arithmetic of ensure_counterparty_amount_bonds on amount_u256
counterparty_of(otype, price, amount_u256) ==
    IF otype = "Buy" THEN MulDiv(amount_u256, price_factor, price)
                     ELSE MulDiv(amount_u256, price, price_factor)

\* the checks of ensure_counterparty_amount_bonds on the counterparty
\* amount c of amount_u256
counterparty_checked(otype, price, amount_u256, c) ==
    IF counterparty_of(NotType(otype), price, c) # amount_u256
    THEN [ok |-> FALSE, value |-> 0]
    ELSE IF c = 0 \/ c > U64MAX THEN [ok |-> FALSE, value |-> 0]
    ELSE [ok |-> TRUE, value |-> c]

\* amount_u256 is U256::from(amount.as_()): the low 64 bits of the balance
ensure_counterparty_amount_bonds(otype, price, amount) ==
    counterparty_checked(otype, price, as_(amount),
                         counterparty_of(otype, price, as_(amount)))

next_match_price(item, otype) == IF otype = "Buy" THEN item.prev ELSE item.next

\* price_matched with the two comparisons exchanged
price_matched_swapped(order_price, order_type, linked_item_price) ==
    IF order_type = "Buy" THEN order_price <= linked_item_price
                          ELSE order_price >= linked_item_price

price_matched(order_price, order_type, linked_item_price) ==
    IF order_type = "Buy" THEN order_price >= linked_item_price
                          ELSE order_price <= linked_item_price

\* first branch of calculate_ex_amount: the seller's need fits the buyer
ex_amount_by_seller(seller_order, maker_order) ==
    LET q0 == WrapMul(as_(seller_order.remained_buy_amount), price_factor)
                    \div maker_order.price
        buy_amount_v2 == WrapMul(q0, maker_order.price) \div price_factor
        quote_qty == IF buy_amount_v2 # as_(seller_order.remained_buy_amount)
                     THEN as_(q0 + 1) ELSE q0
    IN  [ok |-> TRUE, base |-> seller_order.remained_buy_amount, quote |-> quote_qty]

\* second branch of calculate_ex_amount: the buyer's need fits the seller
ex_amount_by_buyer(buyer_order, maker_order) ==
    LET b0 == WrapMul(as_(buyer_order.remained_buy_amount), maker_order.price)
                    \div price_factor
        buy_amount_v2 == WrapMul(b0, price_factor) \div maker_order.price
        base_qty == IF buy_amount_v2 # as_(buyer_order.remained_buy_amount)
                    THEN as_(b0 + 1) ELSE b0
    IN  [ok |-> TRUE, base |-> base_qty, quote |-> buyer_order.remained_buy_amount]

calculate_ex_amount(maker_order, taker_order) ==
    LET buyer_order  == IF taker_order.otype = "Buy" THEN taker_order ELSE maker_order
        seller_order == IF taker_order.otype = "Buy" THEN maker_order ELSE taker_order
    IN  IF seller_order.remained_buy_amount <= buyer_order.remained_sell_amount
        THEN ex_amount_by_seller(seller_order, maker_order)
        ELSE IF buyer_order.remained_buy_amount <= seller_order.remained_sell_amount
        THEN ex_amount_by_buyer(buyer_order, maker_order)
        ELSE [ok |-> FALSE, base |-> 0, quote |-> 0]

\* a product of the branch of calculate_ex_amount that sizes from need at
\* the maker's price exceeds u64::max_value(); into_base tells the second
\* branch (need * price / price_factor) from the first
ex_product_overflows(need, price, into_base) ==
    IF into_base
    THEN \/ MulOverflows(as_(need), price)
         \/ MulOverflows(WrapMul(as_(need), price) \div price_factor, price_factor)
    ELSE \/ MulOverflows(as_(need), price_factor)
         \/ MulOverflows(WrapMul(as_(need), price_factor) \div price, price)

\* a build with overflow checks panics in calculate_ex_amount on these orders
ex_amount_overflows(maker_order, taker_order) ==
    LET buyer_order  == IF taker_order.otype = "Buy" THEN taker_order ELSE maker_order
        seller_order == IF taker_order.otype = "Buy" THEN maker_order ELSE taker_order
    IN  IF seller_order.remained_buy_amount <= buyer_order.remained_sell_amount
        THEN ex_product_overflows(seller_order.remained_buy_amount,
                                  maker_order.price, FALSE)
        ELSE IF buyer_order.remained_buy_amount <= seller_order.remained_sell_amount
        THEN ex_product_overflows(buyer_order.remained_buy_amount,
                                  maker_order.price, TRUE)
        ELSE FALSE

(* ---------------------------------------------------------------------- *)
(* Trade ledger                                                            *)
(* ---------------------------------------------------------------------- *)

\* Trade::new that takes the taker for the buyer whatever its order type
Trade_new_taker_buys(s, base, quote, maker_order, taker_order, base_amount, quote_amount) ==
    [s |-> [s EXCEPT !.Nonce = @ + 1],
     trade |->
        [hash   |-> TradeHash(base, quote, base_amount, quote_amount, s.Nonce, s.seed),
         base   |-> base,
         quote  |-> quote,
         buyer  |-> taker_order.owner,
         seller |-> maker_order.owner,
         base_amount  |-> base_amount,
         quote_amount |-> quote_amount,
         maker  |-> maker_order.owner,
         taker  |-> taker_order.owner,
         otype  |-> taker_order.otype,
         price  |-> maker_order.price]]

\* Trade::new reads the nonce, hashes, and increments the nonce
Trade_new(s, base, quote, maker_order, taker_order, base_amount, quote_amount) ==
    LET nonce == s.Nonce
        hash  == TradeHash(base, quote, base_amount, quote_amount, nonce, s.seed)
    IN  [s |-> [s EXCEPT !.Nonce = @ + 1],
         trade |->
            [hash   |-> hash,
             base   |-> base,
             quote  |-> quote,
             buyer  |-> IF taker_order.otype = "Buy" THEN taker_order.owner
                                                     ELSE maker_order.owner,
             seller |-> IF taker_order.otype = "Buy" THEN maker_order.owner
                                                     ELSE taker_order.owner,
             base_amount  |-> base_amount,
             quote_amount |-> quote_amount,
             maker  |-> maker_order.owner,
             taker  |-> taker_order.owner,
             otype  |-> taker_order.otype,
             price  |-> maker_order.price]]

\* add_trade that puts the trade hash in front of the list
add_trade_in_front(m, k, trade_hash) == Put(m, k, <<trade_hash>> \o GetVec(m, k))

\* the four add_trade functions: push to the list stored under k
add_trade(m, k, trade_hash) == Put(m, k, Append(GetVec(m, k), trade_hash))

(* ---------------------------------------------------------------------- *)
(* Matcher                                                                 *)
(* ---------------------------------------------------------------------- *)

\* an order after its status moved from Created to PartialFilled
touched(order) ==
    IF order.status = "Created" THEN [order EXCEPT !.status = "PartialFilled"] ELSE order

\* settled that leaves the residual sell amount in the order
settled_keeps_residual(order) ==
    IF order.remained_buy_amount = 0
    THEN [order EXCEPT !.status = "Filled"]
    ELSE order

\* an order whose remained_buy_amount is zero becomes Filled and its
\* remaining sell amount is zeroed (after it was unfrozen)
settled(order) ==
    IF order.remained_buy_amount = 0
    THEN [order EXCEPT !.status = "Filled", !.remained_sell_amount = 0]
    ELSE order

\* the dust an order that became Filled gets unfrozen
dust_of(order) ==
    IF order.remained_buy_amount = 0 THEN order.remained_sell_amount ELSE 0

\* the record of one fill kept in log
fill_record(trade, order0, o0, order2, o2, order3, o3, level) ==
    [taker |-> order3.hash, maker |-> o3.hash, trade |-> trade.hash,
     level |-> level,
     taker_price |-> order3.price, taker_otype |-> order3.otype,
     maker_price |-> o3.price, maker_otype |-> o3.otype,
     taker_owner |-> order3.owner, maker_owner |-> o3.owner,
     price |-> trade.price,
     base_amount |-> trade.base_amount, quote_amount |-> trade.quote_amount,
     taker_sell_before |-> order0.remained_sell_amount,
     maker_sell_before |-> o0.remained_sell_amount,
     taker_sell_after  |-> order3.remained_sell_amount,
     maker_sell_after  |-> o3.remained_sell_amount,
     taker_dust |-> dust_of(order2),
     maker_dust |-> dust_of(o2),
     maker_status_before |-> o0.status,
     maker_status |-> o3.status]

\* the trade tn.trade is stored and pushed to the four indices
store_trade(tn, tp_hash, order3, o3, fill) ==
    [tn.s EXCEPT
        !.Trades = Put(@, tn.trade.hash, tn.trade),
        !.OrderOwnedTrades =
            add_trade(add_trade(@, order3.hash, tn.trade.hash), o3.hash, tn.trade.hash),
        !.OwnedTrades =
            add_trade(add_trade(@, order3.owner, tn.trade.hash), o3.owner, tn.trade.hash),
        !.OwnedTPTrades =
            add_trade(add_trade(@, <<order3.owner, tp_hash>>, tn.trade.hash),
                      <<o3.owner, tp_hash>>, tn.trade.hash),
        !.TradePairOwnedTrades = add_trade(@, tp_hash, tn.trade.hash),
        !.log = Append(@, fill)]

\* Trade::new on the storage that holds both orders
make_trade(tn, tp_hash, order0, o0, order2, o2, order3, o3, level) ==
    store_trade(tn, tp_hash, order3, o3,
                fill_record(tn.trade, order0, o0, order2, o2, order3, o3, level))

\* the writes at the end of one iteration of the for loop: both orders, the
\* trade, the four trade indices, and the record of the fill
record_fill(s, tp_hash, tp, order0, o0, order2, o2, order3, o3, base_qty, quote_qty, level) ==
    make_trade(Trade_new([s EXCEPT !.Orders = Put(Put(@, order3.hash, order3), o3.hash, o3)],
                         tp.base, tp.quote, o3, order3, base_qty, quote_qty),
               tp_hash, order0, o0, order2, o2, order3, o3, level)

\* a failed step: Err, with the storage as the step found it
Err(s) == [ok |-> FALSE, s |-> s]

\* the four token calls of one fill, each on the storage the one before left
fill_transfer_back(r, taker, maker, have, have_qty) ==
    IF ~r.ok THEN r ELSE do_transfer(r.s, maker, taker, have, have_qty)

fill_transfer(r, taker, maker, give, have, give_qty, have_qty) ==
    fill_transfer_back(IF ~r.ok THEN r ELSE do_transfer(r.s, taker, maker, give, give_qty),
                       taker, maker, have, have_qty)

fill_unfreeze_maker(r, taker, maker, give, have, give_qty, have_qty) ==
    fill_transfer(IF ~r.ok THEN r ELSE do_unfreeze(r.s, maker, have, have_qty),
                  taker, maker, give, have, give_qty, have_qty)

fill_tokens(s, taker, maker, give, have, give_qty, have_qty) ==
    fill_unfreeze_maker(do_unfreeze(s, taker, give, give_qty),
                        taker, maker, give, have, give_qty, have_qty)

\* the dust of the taker, then of the maker, is unfrozen
dust_maker(r, o2, have) ==
    IF ~r.ok THEN r
    ELSE IF dust_of(o2) # 0 THEN do_unfreeze(r.s, o2.owner, have, dust_of(o2))
    ELSE r

dust_tokens(s, order2, o2, give, have) ==
    dust_maker(IF dust_of(order2) # 0
               THEN do_unfreeze(s, order2.owner, give, dust_of(order2))
               ELSE [ok |-> TRUE, s |-> s],
               o2, have)

\* order_match returns Err(err) on the storage s; order is the taker
Failed(s, order, err) == [ok |-> FALSE, s |-> s, order |-> order, err |-> err]

\* after the subtractions: dust, then the writes
match_settle(d, tp_hash, tp, order0, o0, order2, o2, base_qty, quote_qty, level) ==
    IF ~d.ok THEN Failed(d.s, order2, "token")
    ELSE [ok |-> TRUE,
          s  |-> record_fill(d.s, tp_hash, tp, order0, o0, order2, o2,
                             settled(order2), settled(o2), base_qty, quote_qty, level),
          order |-> settled(order2), err |-> ""]

\* the four checked_sub of one fill on the touched orders order1 and o1
match_subtract(s, tp_hash, tp, give, have, order0, o0, order1, o1, base_qty, quote_qty, give_qty, have_qty, level) ==
    IF ~(/\ order1.remained_sell_amount >= give_qty
         /\ o1.remained_sell_amount >= have_qty
         /\ order1.remained_buy_amount >= have_qty
         /\ o1.remained_buy_amount >= give_qty)
    THEN Failed(s, order1, "substract error")
    ELSE match_settle(
            dust_tokens(s,
                [order1 EXCEPT !.remained_sell_amount = @ - give_qty,
                               !.remained_buy_amount = @ - have_qty],
                [o1 EXCEPT !.remained_sell_amount = @ - have_qty,
                           !.remained_buy_amount = @ - give_qty],
                give, have),
            tp_hash, tp, order0, o0,
            [order1 EXCEPT !.remained_sell_amount = @ - give_qty,
                           !.remained_buy_amount = @ - have_qty],
            [o1 EXCEPT !.remained_sell_amount = @ - have_qty,
                       !.remained_buy_amount = @ - give_qty],
            base_qty, quote_qty, level)

\* after the token calls of one fill, whose result is t
match_moved(t, tp_hash, tp, give, have, order, o, base_qty, quote_qty, give_qty, have_qty, level) ==
    IF ~t.ok THEN Failed(t.s, order, "token")
    ELSE match_subtract(t.s, tp_hash, tp, give, have, order, o, touched(order),
                        touched(o), base_qty, quote_qty, give_qty, have_qty, level)

\* one fill of the quantities ex between the taker order and the maker o
match_sized(s, tp_hash, tp, give, have, order, o, ex, level) ==
    IF ~ex.ok THEN Failed(s, order, "should never executed here")
    ELSE match_moved(
            fill_tokens(s, order.owner, o.owner, give, have,
                        IF order.otype = "Buy" THEN ex.base ELSE ex.quote,
                        IF order.otype = "Buy" THEN ex.quote ELSE ex.base),
            tp_hash, tp, give, have, order, o, ex.base, ex.quote,
            IF order.otype = "Buy" THEN ex.base ELSE ex.quote,
            IF order.otype = "Buy" THEN ex.quote ELSE ex.base,
            level)

\* one iteration of the for loop of order_match against the maker stored
\* under ohash; an error leaves the writes made before it
match_one(s, tp_hash, tp, give, have, order, ohash, level) ==
    IF ~Has(s.Orders, ohash) THEN Failed(s, order, "can not get order")
    ELSE match_sized(s, tp_hash, tp, give, have, order, s.Orders[ohash],
                     calculate_ex_amount(s.Orders[ohash], order), level)

\* the for loop over the queue of one level, from position i; r is the
\* result of the iteration before
RECURSIVE match_level(_, _, _, _, _, _, _, _)
match_level(r, tp_hash, tp, give, have, hashes, i, level) ==
    IF ~r.ok THEN r
    ELSE IF i > Len(hashes) THEN r
    ELSE IF i > 1 /\ r.order.status = "Filled" THEN r
    ELSE match_level(match_one(r.s, tp_hash, tp, give, have, r.order, hashes[i], level),
                     tp_hash, tp, give, have, hashes, i + 1, level)

\* the storage s with the ladder L
with_ladder(s, L) == [s EXCEPT !.LinkedItemList = L]

\* the outer loop of order_match; r carries the storage and the taker,
\* head is the item the next price is taken from
RECURSIVE match_loop(_, _, _, _, _, _)
RECURSIVE match_next(_, _, _, _, _, _)
RECURSIVE match_reread(_, _, _, _, _, _)
match_loop(r, tp_hash, tp, give, have, head) ==
    IF ~r.ok THEN r
    ELSE IF r.order.status = "Filled" THEN r
    ELSE IF next_match_price(head, NotType(r.order.otype))
            = (IF r.order.otype = "Buy" THEN PMIN ELSE PMAX) THEN r
    ELSE IF next_match_price(head, NotType(r.order.otype)) = None
         THEN Failed(r.s, r.order, "can not get item price")
    ELSE IF ~price_matched(r.order.price, r.order.otype,
                           next_match_price(head, NotType(r.order.otype))) THEN r
    ELSE IF ~Has(r.s.LinkedItemList,
                 <<tp_hash, next_match_price(head, NotType(r.order.otype))>>)
         THEN Failed(r.s, r.order, "can not unwrap linked list item")
    ELSE match_next(
            match_level(r, tp_hash, tp, give, have,
                r.s.LinkedItemList[<<tp_hash,
                    next_match_price(head, NotType(r.order.otype))>>].orders,
                1, next_match_price(head, NotType(r.order.otype))),
            tp_hash, tp, give, have,
            next_match_price(head, NotType(r.order.otype)))

\* the end of one pass of the outer loop: head is read again at item_price
match_next(r, tp_hash, tp, give, have, item_price) ==
    IF ~r.ok THEN r
    ELSE match_reread(r, read(r.s.LinkedItemList, tp_hash, item_price),
                      tp_hash, tp, give, have)

match_reread(r, h, tp_hash, tp, give, have) ==
    match_loop([r EXCEPT !.s = with_ladder(r.s, h.L)], tp_hash, tp, give, have, h.item)

\* the end of order_match where an Err of remove_items is returned
match_pruned_fatal(m, rm) ==
    [ok |-> rm.ok, s |-> with_ladder(m.s, rm.L),
     filled |-> (m.order.status = "Filled"), stopped |-> ~rm.ok,
     err |-> IF rm.ok THEN "" ELSE "try to remove not finished order"]

\* the end of order_match after remove_items returned rm: the result of
\* remove_items is dropped, its writes stay; stopped tells that it was an Err
match_pruned(m, rm) ==
    [ok |-> TRUE, s |-> with_ladder(m.s, rm.L),
     filled |-> (m.order.status = "Filled"), stopped |-> ~rm.ok, err |-> ""]

match_prune(m, tp_hash, otype) ==
    IF ~m.ok THEN [ok |-> FALSE, s |-> m.s, filled |-> FALSE, stopped |-> FALSE,
                   err |-> m.err]
    ELSE match_pruned(m, remove_items(m.s.LinkedItemList, m.s.Orders, tp_hash,
                                      NotType(otype)))

\* order_match after read_head returned h
match_from_head(s, h, tp_hash, order) ==
    IF ~Has(s.TradePairsByHash, tp_hash)
    THEN [ok |-> FALSE, s |-> with_ladder(s, h.L), filled |-> FALSE, stopped |-> FALSE,
          err |-> "can not get trade pair"]
    ELSE match_prune(
            match_loop([ok |-> TRUE, s |-> with_ladder(s, h.L), order |-> order, err |-> ""],
                       tp_hash, s.TradePairsByHash[tp_hash],
                       IF order.otype = "Buy" THEN s.TradePairsByHash[tp_hash].base
                                              ELSE s.TradePairsByHash[tp_hash].quote,
                       IF order.otype = "Buy" THEN s.TradePairsByHash[tp_hash].quote
                                              ELSE s.TradePairsByHash[tp_hash].base,
                       h.item),
            tp_hash, order.otype)

order_match(s, tp_hash, order) ==
    match_from_head(s, read_head(s.LinkedItemList, tp_hash), tp_hash, order)

(* ---------------------------------------------------------------------- *)
(* Dispatchable functions                                                  *)
(* ---------------------------------------------------------------------- *)

ensure_trade_pair(s, base, quote) == Has(s.TradePairHashByBaseQuote, <<base, quote>>)

\* the writes of create_limit_order before it calls order_match
store_order(s, sender, tp, order) ==
    [s EXCEPT
        !.Orders = Put(@, order.hash, order),
        !.OwnedOrders = Put(@, <<sender, GetIdx(s.OwnedOrdersIndex, sender)>>, order.hash),
        !.OwnedOrdersIndex = Put(@, sender, GetIdx(s.OwnedOrdersIndex, sender) + 1),
        !.TradePairOwnedOrders =
            Put(@, <<tp, GetIdx(s.TradePairOwnedOrdersIndex, tp)>>, order.hash),
        !.TradePairOwnedOrdersIndex =
            Put(@, tp, GetIdx(s.TradePairOwnedOrdersIndex, tp) + 1)]

\* the end of create_limit_order: an order that is not filled is appended
place_rest(m, tp, order) ==
    IF ~m.ok THEN [ok |-> FALSE, s |-> m.s, stopped |-> m.stopped, err |-> m.err]
    ELSE IF ~m.filled
         THEN [ok |-> TRUE,
               s  |-> with_ladder(m.s, append(m.s.LinkedItemList, tp, order.price,
                                              order.hash, order.otype)),
               filled |-> FALSE, stopped |-> m.stopped]
    ELSE [ok |-> TRUE, s |-> m.s, filled |-> TRUE, stopped |-> m.stopped]

\* create_limit_order from the freeze on; f is the result of do_freeze
place_frozen(f, sender, tp, order) ==
    IF ~f.ok THEN Err(f.s)
    ELSE place_rest(order_match(store_order(f.s, sender, tp, order), tp, order),
                    tp, order)

\* create_limit_order once the counterparty amount c is computed
place_order(s, sender, tp, base, quote, otype, price, sell_amount, c) ==
    IF ~c.ok THEN Err(s)
    ELSE IF ~ensure_free_balance(s, sender, IF otype = "Buy" THEN base ELSE quote,
                                 sell_amount)
         THEN Err(s)
    ELSE place_frozen(
            do_freeze(s, sender, IF otype = "Buy" THEN base ELSE quote, sell_amount),
            sender, tp,
            LimitOrder_new(base, quote, sender, price, sell_amount, c.value, otype,
                           s.seed))

\* create_limit_order on the storage s: ok tells Ok(()) from Err, s is the
\* storage the call leaves
create_limit_order(s, sender, base, quote, otype, price, sell_amount) ==
    IF ~ensure_trade_pair(s, base, quote) THEN Err(s)
    ELSE IF ~ensure_bonds(price, sell_amount) THEN Err(s)
    ELSE place_order(s, sender, s.TradePairHashByBaseQuote[<<base, quote>>],
                     base, quote, otype, price, sell_amount,
                     ensure_counterparty_amount_bonds(otype, price, sell_amount))

\* the writes of do_create_trade_pair
store_pair(s, base, quote, hash) ==
    [s EXCEPT
        !.Nonce = @ + 1,
        !.TradePairsByHash = Put(@, hash, [hash |-> hash, base |-> base, quote |-> quote]),
        !.TradePairHashByBaseQuote = Put(@, <<base, quote>>, hash)]

\* do_create_trade_pair without the lookup of the opposite orientation
do_create_trade_pair_one_lookup(s, sender, base, quote) ==
    IF base = quote THEN Err(s)
    ELSE IF ~(base \in DOMAIN TokenOwner /\ quote \in DOMAIN TokenOwner) THEN Err(s)
    ELSE IF ~(sender = TokenOwner[base] \/ sender = TokenOwner[quote]) THEN Err(s)
    ELSE IF Has(s.TradePairHashByBaseQuote, <<base, quote>>) THEN Err(s)
    ELSE [ok |-> TRUE,
          s  |-> store_pair(s, base, quote, PairHash(base, quote, s.Nonce, sender, s.seed))]

\* do_create_trade_pair without the check that the sender owns a token
do_create_trade_pair_any_sender(s, sender, base, quote) ==
    IF base = quote THEN Err(s)
    ELSE IF ~(base \in DOMAIN TokenOwner /\ quote \in DOMAIN TokenOwner) THEN Err(s)
    ELSE IF Has(s.TradePairHashByBaseQuote, <<base, quote>>)
            \/ Has(s.TradePairHashByBaseQuote, <<quote, base>>) THEN Err(s)
    ELSE [ok |-> TRUE,
          s  |-> store_pair(s, base, quote, PairHash(base, quote, s.Nonce, sender, s.seed))]

\* do_create_trade_pair on the storage s
do_create_trade_pair(s, sender, base, quote) ==
    IF base = quote THEN Err(s)
    ELSE IF ~(base \in DOMAIN TokenOwner /\ quote \in DOMAIN TokenOwner) THEN Err(s)
    ELSE IF ~(sender = TokenOwner[base] \/ sender = TokenOwner[quote]) THEN Err(s)
    ELSE IF Has(s.TradePairHashByBaseQuote, <<base, quote>>)
            \/ Has(s.TradePairHashByBaseQuote, <<quote, base>>) THEN Err(s)
    ELSE [ok |-> TRUE,
          s  |-> store_pair(s, base, quote, PairHash(base, quote, s.Nonce, sender, s.seed))]

(* ---------------------------------------------------------------------- *)
(* State                                                                   *)
(* ---------------------------------------------------------------------- *)

VARIABLES
    TradePairsByHash,           \* TradePairHash => TradePair
    TradePairHashByBaseQuote,   \* (BaseTokenHash, QuoteTokenHash) => TradePairHash
    Orders,                     \* OrderHash => Order
    OwnedOrders,                \* (AccountId, Index) => OrderHash
    OwnedOrdersIndex,           \* AccountId => Index
    TradePairOwnedOrders,       \* (TradePairHash, Index) => OrderHash
    TradePairOwnedOrdersIndex,  \* TradePairHash => Index
    LinkedItemList,             \* (TradePairHash, Price) => LinkedItem
    Trades,                     \* TradeHash => Trade
    OwnedTrades,                \* AccountId => Vec<TradeHash>
    OwnedTPTrades,              \* (AccountId, TradePairHash) => Vec<TradeHash>
    TradePairOwnedTrades,       \* TradePairHash => Vec<TradeHash>
    OrderOwnedTrades,           \* OrderHash => Vec<TradeHash>
    Nonce,
    free,                       \* token module: free balance of (account, token)
    frozen,                     \* token module: frozen balance of (account, token)
    seed,                       \* system::Module::random_seed of the current block
    last,                       \* the last call that wrote: name, result, order,
                                \* and what order_match returned to it
    log,                        \* the fills of that call, in execution order
    call                        \* a call of a pure function: inputs and result

storageVars ==
    <<TradePairsByHash, TradePairHashByBaseQuote, Orders, OwnedOrders,
      OwnedOrdersIndex, TradePairOwnedOrders, TradePairOwnedOrdersIndex,
      LinkedItemList, Trades, OwnedTrades, OwnedTPTrades, TradePairOwnedTrades,
      OrderOwnedTrades, Nonce>>

tokenVars == <<free, frozen>>

vars == <<storageVars, tokenVars, seed, last, log, call>>

\* the storage as one record, as the functions above take it
Storage ==
    [TradePairsByHash |-> TradePairsByHash,
     TradePairHashByBaseQuote |-> TradePairHashByBaseQuote,
     Orders |-> Orders,
     OwnedOrders |-> OwnedOrders,
     OwnedOrdersIndex |-> OwnedOrdersIndex,
     TradePairOwnedOrders |-> TradePairOwnedOrders,
     TradePairOwnedOrdersIndex |-> TradePairOwnedOrdersIndex,
     LinkedItemList |-> LinkedItemList,
     Trades |-> Trades,
     OwnedTrades |-> OwnedTrades,
     OwnedTPTrades |-> OwnedTPTrades,
     TradePairOwnedTrades |-> TradePairOwnedTrades,
     OrderOwnedTrades |-> OrderOwnedTrades,
     Nonce |-> Nonce,
     free |-> free,
     frozen |-> frozen,
     seed |-> seed,
     log |-> << >>]

\* the storage after a call is s
Becomes(s) ==
    /\ TradePairsByHash' = s.TradePairsByHash
    /\ TradePairHashByBaseQuote' = s.TradePairHashByBaseQuote
    /\ Orders' = s.Orders
    /\ OwnedOrders' = s.OwnedOrders
    /\ OwnedOrdersIndex' = s.OwnedOrdersIndex
    /\ TradePairOwnedOrders' = s.TradePairOwnedOrders
    /\ TradePairOwnedOrdersIndex' = s.TradePairOwnedOrdersIndex
    /\ LinkedItemList' = s.LinkedItemList
    /\ Trades' = s.Trades
    /\ OwnedTrades' = s.OwnedTrades
    /\ OwnedTPTrades' = s.OwnedTPTrades
    /\ TradePairOwnedTrades' = s.TradePairOwnedTrades
    /\ OrderOwnedTrades' = s.OrderOwnedTrades
    /\ Nonce' = s.Nonce
    /\ free' = s.free
    /\ frozen' = s.frozen
    /\ log' = s.log

NoOrder == << >>

NoCall == [fn |-> "none"]

\* the storage after construction, with the balances the token module holds
InitStorage(balance) ==
    /\ TradePairsByHash = EmptyMap
    /\ TradePairHashByBaseQuote = EmptyMap
    /\ Orders = EmptyMap
    /\ OwnedOrders = EmptyMap
    /\ OwnedOrdersIndex = EmptyMap
    /\ TradePairOwnedOrders = EmptyMap
    /\ TradePairOwnedOrdersIndex = EmptyMap
    /\ LinkedItemList = EmptyMap
    /\ Trades = EmptyMap
    /\ OwnedTrades = EmptyMap
    /\ OwnedTPTrades = EmptyMap
    /\ TradePairOwnedTrades = EmptyMap
    /\ OrderOwnedTrades = EmptyMap
    /\ Nonce = 0
    /\ free = [k \in Accounts \X Tokens |-> balance]
    /\ frozen = [k \in Accounts \X Tokens |-> 0]
    /\ seed = 0
    /\ last = [op |-> "none", ok |-> TRUE, order |-> NoOrder, filled |-> FALSE,
               stopped |-> FALSE, err |-> "", otype |-> ""]
    /\ log = << >>

Init ==
    /\ InitStorage(InitBalance)
    /\ call = NoCall

\* sum of the index map m over the keys in S
RECURSIVE SumIdx(_, _)
SumIdx(m, S) ==
    IF S = {} THEN 0
    ELSE LET a == CHOOSE x \in S : TRUE
         IN  m[a] + SumIdx(m, S \ {a})

\* number of orders that reached the order store
OrdersPlaced == SumIdx(OwnedOrdersIndex, DOMAIN OwnedOrdersIndex)

(* ---------------------------------------------------------------------- *)
(* Actions                                                                 *)
(* ---------------------------------------------------------------------- *)

\* the dispatchable create_trade_pair(origin, base, quote); last and log
\* record the calls that wrote to the storage
CreateTradePair(sender, base, quote) ==
    LET r == do_create_trade_pair(Storage, sender, base, quote)
    IN  IF r.s = Storage THEN UNCHANGED vars
        ELSE /\ Becomes(r.s)
             /\ last' = [op |-> "create_trade_pair", ok |-> r.ok, order |-> NoOrder,
                         filled |-> FALSE, stopped |-> FALSE, err |-> "", otype |-> ""]
             /\ UNCHANGED <<seed, call>>

\* the dispatchable create_limit_order(origin, base, quote, otype, price, sell_amount)
CreateLimitOrder(sender, base, quote, otype, price, sell_amount) ==
    /\ OrdersPlaced < MaxOrders
    /\ LET r == create_limit_order(Storage, sender, base, quote, otype, price, sell_amount)
           c == ensure_counterparty_amount_bonds(otype, price, sell_amount)
       IN  IF r.s = Storage THEN UNCHANGED vars
           ELSE /\ Becomes(r.s)
                /\ last' = [op |-> "create_limit_order", ok |-> r.ok,
                            order |-> OrderHash(base, quote, price, sell_amount,
                                                c.value, sender, seed),
                            filled |-> r.ok /\ r.filled,
                            stopped |-> "stopped" \in DOMAIN r /\ r.stopped,
                            err |-> IF "err" \in DOMAIN r THEN r.err ELSE "",
                            otype |-> otype]
                /\ UNCHANGED <<seed, call>>

\* a new block: the random seed changes
NextBlock ==
    /\ seed < MaxSeed
    /\ seed' = seed + 1
    /\ UNCHANGED <<storageVars, tokenVars, last, log, call>>

Next ==
    \/ \E sender \in Senders, base \in TokenInputs, quote \in TokenInputs :
          CreateTradePair(sender, base, quote)
    \/ \E sender \in Accounts, base \in OrderBases, quote \in OrderQuotes,
          otype \in OrderTypes, price \in PriceInputs, sell_amount \in AmountInputs :
          CreateLimitOrder(sender, base, quote, otype, price, sell_amount)
    \/ NextBlock

Spec == Init /\ [][Next]_vars

(* ---------------------------------------------------------------------- *)
(* The same calls with balances and amounts above the 64-bit range         *)
(* ---------------------------------------------------------------------- *)

\* T::Balance is u128: an account may hold more than u64::max_value()
WideBalance == U64MAX + 8

\* amounts on both sides of u64::max_value(); their low 64 bits are small,
\* so that no product of calculate_ex_amount wraps
WideAmountInputs == {2, 3, U64MAX + 1, U64MAX + 4}

WidePriceInputs == {price_factor, 3 * PriceUnit}

WideInit ==
    /\ InitStorage(WideBalance)
    /\ call = NoCall

WideNext ==
    \/ \E sender \in Senders, base \in TokenInputs, quote \in TokenInputs :
          CreateTradePair(sender, base, quote)
    \/ \E sender \in Accounts, base \in OrderBases, quote \in OrderQuotes,
          otype \in OrderTypes, price \in WidePriceInputs,
          sell_amount \in WideAmountInputs :
          CreateLimitOrder(sender, base, quote, otype, price, sell_amount)
    \/ NextBlock

WideSpec == WideInit /\ [][WideNext]_vars

(* ---------------------------------------------------------------------- *)
(* Properties                                                              *)
(* ---------------------------------------------------------------------- *)

\* the stored order behind position i of the queue stored under k
QueuedOrder(k, i) == Orders[LinkedItemList[k].orders[i]]

\* the level stored under k holds an order of type ty
HoldsType(k, ty) ==
    \E i \in 1..Len(LinkedItemList[k].orders) :
        /\ Has(Orders, LinkedItemList[k].orders[i])
        /\ QueuedOrder(k, i).otype = ty

AfterOrderOk == last.op = "create_limit_order" /\ last.ok

\* C1: after every successful create_limit_order the highest price of a
\* level holding Buy orders is strictly less than the lowest price of a level
\* holding Sell orders of the same pair.
C1_NonCrossing ==
    AfterOrderOk =>
        \A kb \in DOMAIN LinkedItemList, ks \in DOMAIN LinkedItemList :
            (kb[1] = ks[1] /\ HoldsType(kb, "Buy") /\ HoldsType(ks, "Sell"))
                => LinkedItemList[kb].price < LinkedItemList[ks].price

\* C3: every trade of a Buy taker has a price no higher than the taker's
\* limit, every trade of a Sell taker a price no lower.
C3_PriceImprovement ==
    \A j \in 1..Len(log) :
        /\ Has(Trades, log[j].trade)
        /\ IF log[j].taker_otype = "Buy"
           THEN Trades[log[j].trade].price <= log[j].taker_price
           ELSE Trades[log[j].trade].price >= log[j].taker_price

\* a call traded against a maker whose price is strictly better than the
\* taker's limit
C3_Witness ==
    \E j \in 1..Len(log) :
        /\ log[j].taker_otype = "Buy"
        /\ Trades[log[j].trade].price < log[j].taker_price

\* marks a walk that left the stored items or did not end
Broken == 0 - 2

\* the keys visited from key k along dir ("next" or "prev") up to the key
\* stop, in at most fuel steps
RECURSIVE Walk(_, _, _, _, _)
Walk(tp, k, stop, dir, fuel) ==
    IF ~Has(LinkedItemList, <<tp, k>>) THEN <<Broken>>
    ELSE IF k = stop THEN <<k>>
    ELSE IF fuel = 0 THEN <<Broken>>
    ELSE <<k>> \o Walk(tp, LinkedItemList[<<tp, k>>][dir], stop, dir, fuel - 1)

\* the prices of w without the key of Head
Priced(w) == SelectSeq(w, LAMBDA k : k # None)

StrictlyIncreasing(w) == \A i \in 1..(Len(w) - 1) : w[i] < w[i + 1]

StrictlyDecreasing(w) == \A i \in 1..(Len(w) - 1) : w[i] > w[i + 1]

InSeq(x, w) == \E i \in 1..Len(w) : w[i] = x

LadderPairs == {k[1] : k \in DOMAIN LinkedItemList}

LadderSize == Cardinality(DOMAIN LinkedItemList)

FifoStep(old, new, h) ==
    \E j \in 0..Len(old) :
        LET rest == SubSeq(old, j + 1, Len(old))
        IN  \/ new = rest
            \/ new = Append(rest, h)

\* C5: a call changes the queue of a level only by removing orders at its
\* front and by adding the call's order at its tail; a level the call
\* creates holds that order alone.
C5_FifoLevel ==
    [][\A k \in DOMAIN LinkedItemList' :
          IF Has(LinkedItemList, k)
          THEN FifoStep(LinkedItemList[k].orders, LinkedItemList'[k].orders, last'.order)
          ELSE FifoStep(<< >>, LinkedItemList'[k].orders, last'.order)]_vars

\* a level that lost its first order to a fill and still holds a later one
C5_Witness ==
    \E k \in DOMAIN LinkedItemList, j \in 1..Len(log) :
        /\ log[j].level = k[2]
        /\ log[j].maker_status = "Filled"
        /\ Len(LinkedItemList[k].orders) > 0
        /\ ~InSeq(log[j].maker, LinkedItemList[k].orders)
        /\ Has(Orders, LinkedItemList[k].orders[1])
        /\ QueuedOrder(k, 1).otype = log[j].maker_otype

\* C6 as stated: per trade, the remaining sell amounts before equal the
\* remaining sell amounts after plus base_amount plus quote_amount.
C6_ConservationNoDust ==
    \A j \in 1..Len(log) :
        log[j].taker_sell_before + log[j].maker_sell_before
            = log[j].taker_sell_after + log[j].maker_sell_after
              + log[j].base_amount + log[j].quote_amount

\* C6: per trade, the remaining sell amounts before equal the remaining
\* sell amounts after plus base_amount plus quote_amount plus the residual
\* sell amounts unfrozen for the orders the trade made Filled.
C6_Conservation ==
    \A j \in 1..Len(log) :
        /\ Has(Trades, log[j].trade)
        /\ log[j].taker_sell_before + log[j].maker_sell_before
            = log[j].taker_sell_after + log[j].maker_sell_after
              + Trades[log[j].trade].base_amount + Trades[log[j].trade].quote_amount
              + log[j].taker_dust + log[j].maker_dust

\* a trade that made an order Filled with a residual sell amount
C6_Witness ==
    \E j \in 1..Len(log) : log[j].taker_dust + log[j].maker_dust > 0

\* the orders of the account that rest: stored and not finished
RestingOf(who, tok) ==
    {h \in DOMAIN Orders :
        /\ ~is_finished(Orders[h])
        /\ Orders[h].owner = who
        /\ tok = IF Orders[h].otype = "Buy" THEN Orders[h].base ELSE Orders[h].quote}

RECURSIVE SumRemainedSell(_)
SumRemainedSell(S) ==
    IF S = {} THEN 0
    ELSE LET h == CHOOSE x \in S : TRUE
         IN  Orders[h].remained_sell_amount + SumRemainedSell(S \ {h})

\* C7: after a successful call the frozen amount of every account and token
\* is the sum of remained_sell_amount over the account's resting orders that
\* sell the token.
C7_FrozenBalance ==
    last.ok =>
        \A k \in DOMAIN frozen : frozen[k] = SumRemainedSell(RestingOf(k[1], k[2]))

\* the position of the first occurrence of h in the queue q, 0 if none
FirstPos(h, q) ==
    IF InSeq(h, q) THEN CHOOSE i \in 1..Len(q) : q[i] = h /\ \A n \in 1..(i - 1) : q[n] # h
    ELSE 0

\* the resting orders that are ahead of the maker of the fill f in price-time
\* priority, in the book as the call found it: the orders before it in the
\* queue of its level, and the orders of its type at every better level
AheadOf(f) ==
    {x \in DOMAIN Orders :
        \E k \in DOMAIN LinkedItemList :
            /\ k[2] # None
            /\ InSeq(x, LinkedItemList[k].orders)
            /\ ~is_finished(Orders[x])
            /\ \/ /\ k[2] = f.level
                  /\ FirstPos(x, LinkedItemList[k].orders)
                        < FirstPos(f.maker, LinkedItemList[k].orders)
               \/ /\ Orders[x].otype = f.maker_otype
                  /\ IF f.taker_otype = "Buy" THEN k[2] < f.level ELSE k[2] > f.level}

\* C2: in one call a maker is traded only when every maker ahead of it in
\* price-time priority (better price first, queue order inside a level) has
\* been completely filled by then.
C2_PriceTimePriority ==
    [][\A j \in 1..Len(log') :
          log' # log =>
              \A x \in AheadOf(log'[j]) :
                  \E i \in 1..(j - 1) :
                      /\ log'[i].maker = x
                      /\ log'[i].maker_status = "Filled"]_vars

Terminal(order) == order.status \in {"Filled", "Canceled"}

\* C8: a stored order whose status is Filled or Canceled is stored
\* unchanged, field by field, after every later call.
C8_TerminalFrozen ==
    [][\A h \in DOMAIN Orders :
          Terminal(Orders[h]) => (Has(Orders', h) /\ Orders'[h] = Orders[h])]_vars

\* the number of pairs, orders and trades a step creates
PairsCreated == Cardinality(DOMAIN TradePairsByHash') - Cardinality(DOMAIN TradePairsByHash)

OrdersCreated ==
    SumIdx(OwnedOrdersIndex', DOMAIN OwnedOrdersIndex')
        - SumIdx(OwnedOrdersIndex, DOMAIN OwnedOrdersIndex)

TradesCreated == IF log' # log THEN Len(log') ELSE 0

\* C9: every creation of a pair, an order or a trade takes a nonce value of
\* its own: a step raises the nonce by the number of its creations.
C9_MonotoneNonce ==
    [][Nonce' = Nonce + PairsCreated + OrdersCreated + TradesCreated]_vars

\* C10: a create_limit_order that returns an error leaves the orders, the
\* order indices, the ladder, the trades, the trade indices, the nonce and
\* the frozen amounts as they were before the call.
C10_AtomicFailure ==
    [][(last'.op = "create_limit_order" /\ ~last'.ok)
          => UNCHANGED <<storageVars, frozen>>]_vars

(* ---------------------------------------------------------------------- *)
(* The arithmetic functions on their own                                   *)
(* ---------------------------------------------------------------------- *)

ArithPriceInputs == {price_factor, 3 * PriceUnit, 2 * price_factor}

\* amounts of T::Balance: small ones, ones whose product with price_factor
\* exceeds u64::max_value(), and ones on both sides of u64::max_value()
ArithAmountInputs == {1, 2, 3, 6, 12, 24, U64MAX - 1, U64MAX, U64MAX + 1, U64MAX + 4}

\* ensure_counterparty_amount_bonds(otype, price, amount), not yet called
ConvertCalls ==
    [fn : {"convert"}, otype : OrderTypes, price : ArithPriceInputs,
     amount : ArithAmountInputs, out : {<< >>}, panic : {FALSE}]

\* calculate_ex_amount on a maker at maker_price selling maker_sell and a
\* taker of type otype at taker_price selling taker_sell, not yet called
SizeCalls ==
    [fn : {"size"}, otype : OrderTypes, maker_price : ArithPriceInputs,
     taker_price : ArithPriceInputs, maker_sell : ArithAmountInputs,
     taker_sell : ArithAmountInputs, out : {<< >>}, panic : {FALSE}]

\* the order create_limit_order builds from validated inputs
ValidOrder(owner, otype, price, sell_amount) ==
    LimitOrder_new("t1", "t2", owner, price, sell_amount,
                   ensure_counterparty_amount_bonds(otype, price, sell_amount).value,
                   otype, 0)

MakerOf(c) == ValidOrder("alice", NotType(c.otype), c.maker_price, c.maker_sell)

TakerOf(c) == ValidOrder("bob", c.otype, c.taker_price, c.taker_sell)

\* the two orders pass validation and order_match would size a trade of them
Sizable(c) ==
    /\ ensure_counterparty_amount_bonds(NotType(c.otype), c.maker_price, c.maker_sell).ok
    /\ ensure_counterparty_amount_bonds(c.otype, c.taker_price, c.taker_sell).ok
    /\ price_matched(c.taker_price, c.otype, c.maker_price)

\* the pair whose ladder is read before anything was stored for it
FreshPair == PairHash("t1", "t2", 0, "alice", 0)

\* a call of read_head, read_bottom or read_top
ReadCalls == [fn : {"read"}, key2 : SentinelKeys, out : {<< >>}, panic : {FALSE}]

ArithInit ==
    /\ InitStorage(InitBalance)
    /\ call \in ConvertCalls \cup SizeCalls \cup ReadCalls

\* the conversion of the drawn amount
Convert ==
    /\ call.fn = "convert" /\ call.out = << >>
    /\ call' = [call EXCEPT !.out =
                   <<ensure_counterparty_amount_bonds(call.otype, call.price, call.amount)>>]
    /\ UNCHANGED <<storageVars, tokenVars, seed, last, log>>

\* the conversion of an accepted result back, as the other order type
ConvertBack ==
    /\ call.fn = "convert" /\ Len(call.out) = 1 /\ call.out[1].ok
    /\ call' = [call EXCEPT !.out =
                   Append(@, ensure_counterparty_amount_bonds(NotType(call.otype), call.price,
                                                              call.out[1].value))]
    /\ UNCHANGED <<storageVars, tokenVars, seed, last, log>>

\* what a call that panicked leaves: no quantities
NoAmounts == [ok |-> FALSE, base |-> 0, quote |-> 0]

\* calculate_ex_amount on the drawn orders; where a product exceeds
\* u64::max_value() a build with overflow checks panics and a build without
\* them goes on with the wrapped product
SizeTrade(checked) ==
    /\ call.fn = "size" /\ call.out = << >> /\ Sizable(call)
    /\ call' = [call EXCEPT
                   !.out = IF checked /\ ex_amount_overflows(MakerOf(call), TakerOf(call))
                           THEN <<NoAmounts>>
                           ELSE <<calculate_ex_amount(MakerOf(call), TakerOf(call))>>,
                   !.panic = checked /\ ex_amount_overflows(MakerOf(call), TakerOf(call))]
    /\ UNCHANGED <<storageVars, tokenVars, seed, last, log>>

\* read of a sentinel key on the pair that has no ladder record
ReadFresh ==
    /\ call.fn = "read" /\ call.out = << >>
    /\ LinkedItemList' = read(LinkedItemList, FreshPair, call.key2).L
    /\ call' = [call EXCEPT !.out = <<read(LinkedItemList, FreshPair, call.key2).item>>]
    /\ UNCHANGED <<Orders, OwnedOrders, OwnedOrdersIndex, TradePairOwnedOrders,
                   TradePairOwnedOrdersIndex, TradePairsByHash, TradePairHashByBaseQuote,
                   Trades, OwnedTrades, OwnedTPTrades, TradePairOwnedTrades,
                   OrderOwnedTrades, Nonce, tokenVars, seed, last, log>>

ArithNext ==
    \/ Convert
    \/ ConvertBack
    \/ ReadFresh
    \/ \E checked \in BOOLEAN : SizeTrade(checked)

ArithSpec == ArithInit /\ [][ArithNext]_vars

(* ---------------------------------------------------------------------- *)
(* The orders of the module's own test, at the price_factor of the source  *)
(* ---------------------------------------------------------------------- *)

\* the balance the accounts hold in the scenarios
ScenarioBalance == 1000

\* price 18 of the test's first order, and one whole unit of price
ScenarioPrices == {18, price_factor}

\* sell amount 200 of the test's first order, and half of it
ScenarioAmounts == {200, 100}

ScenarioInit ==
    /\ InitStorage(ScenarioBalance)
    /\ call = NoCall

\* create_limit_order, with the inputs and the result of every call kept in
\* call, the rejected ones included; fresh: the pair exists and has no order
ScenarioOrder(sender, base, quote, otype, price, sell_amount) ==
    /\ OrdersPlaced < MaxOrders
    /\ LET r == create_limit_order(Storage, sender, base, quote, otype, price, sell_amount)
           c == ensure_counterparty_amount_bonds(otype, price, sell_amount)
       IN  /\ Becomes(r.s)
           /\ last' = IF r.s = Storage THEN last
                      ELSE [op |-> "create_limit_order", ok |-> r.ok,
                            order |-> OrderHash(base, quote, price, sell_amount,
                                                c.value, sender, seed),
                            filled |-> r.ok /\ r.filled,
                            stopped |-> "stopped" \in DOMAIN r /\ r.stopped,
                            err |-> IF "err" \in DOMAIN r THEN r.err ELSE "",
                            otype |-> otype]
           /\ call' = [fn |-> "create_limit_order", sender |-> sender, base |-> base,
                       quote |-> quote, otype |-> otype, price |-> price,
                       sell_amount |-> sell_amount,
                       fresh |-> ensure_trade_pair(Storage, base, quote) /\ OrdersPlaced = 0,
                       ok |-> r.ok]
           /\ UNCHANGED seed

ScenarioNext ==
    \/ \E sender \in Senders, base \in TokenInputs, quote \in TokenInputs :
          CreateTradePair(sender, base, quote)
    \/ \E sender \in Accounts, base \in OrderBases, quote \in OrderQuotes,
          otype \in OrderTypes, price \in ScenarioPrices, sell_amount \in ScenarioAmounts :
          ScenarioOrder(sender, base, quote, otype, price, sell_amount)
    \/ NextBlock

ScenarioSpec == ScenarioInit /\ [][ScenarioNext]_vars

(* ---------------------------------------------------------------------- *)
(* create_limit_order with one iteration of its loops per step             *)
(* ---------------------------------------------------------------------- *)

\* one pass of the outer loop of order_match: exit tells that the loop is
\* left, by a break or by an Err; otherwise head is the item read at the end
\* of the pass
match_pass(r, tp_hash, tp, give, have, head) ==
    LET item_price == next_match_price(head, NotType(r.order.otype))
    IN  IF r.order.status = "Filled" THEN [exit |-> TRUE, r |-> r, head |-> head]
        ELSE IF item_price = (IF r.order.otype = "Buy" THEN PMIN ELSE PMAX)
             THEN [exit |-> TRUE, r |-> r, head |-> head]
        ELSE IF item_price = None
             THEN [exit |-> TRUE, r |-> Failed(r.s, r.order, "can not get item price"),
                   head |-> head]
        ELSE IF ~price_matched(r.order.price, r.order.otype, item_price)
             THEN [exit |-> TRUE, r |-> r, head |-> head]
        ELSE IF ~Has(r.s.LinkedItemList, <<tp_hash, item_price>>)
             THEN [exit |-> TRUE,
                   r |-> Failed(r.s, r.order, "can not unwrap linked list item"),
                   head |-> head]
        ELSE LET r1 == match_level(r, tp_hash, tp, give, have,
                                   r.s.LinkedItemList[<<tp_hash, item_price>>].orders,
                                   1, item_price)
                 h  == read(r1.s.LinkedItemList, tp_hash, item_price)
             IN  IF ~r1.ok THEN [exit |-> TRUE, r |-> r1, head |-> head]
                 ELSE [exit |-> FALSE, r |-> [r1 EXCEPT !.s = with_ladder(r1.s, h.L)],
                       head |-> h.item]

\* a pass of the loop of remove_items whose remove_item empties the queue
\* of the level and leaves the level linked
remove_items_pass_keeps_level(L, Ords, key1, otype) ==
    LET h    == read_head(L, key1)
        key2 == IF otype = "Buy" THEN h.item.prev ELSE h.item.next
    IN  IF key2 = (IF otype = "Buy" THEN PMIN ELSE PMAX)
        THEN [exit |-> TRUE, ok |-> TRUE, L |-> h.L]
        ELSE IF ~Has(h.L, <<key1, key2>>) THEN [exit |-> FALSE, ok |-> TRUE, L |-> h.L]
        ELSE LET p == remove_pop(h.L, Ords, key1, key2, h.L[<<key1, key2>>])
             IN  [exit |-> ~p.ok, ok |-> p.ok, L |-> p.L]

\* one pass of the loop of remove_items: head is read, the level next to it
\* is removed; exit tells that the loop is left, by the break or by an Err
remove_items_pass(L, Ords, key1, otype) ==
    LET h    == read_head(L, key1)
        key2 == IF otype = "Buy" THEN h.item.prev ELSE h.item.next
    IN  IF key2 = (IF otype = "Buy" THEN PMIN ELSE PMAX)
        THEN [exit |-> TRUE, ok |-> TRUE, L |-> h.L]
        ELSE LET r == remove_item(h.L, Ords, key1, key2)
             IN  [exit |-> ~r.ok, ok |-> r.ok, L |-> r.L]

\* one pass of the while loop of append, standing at item
append_pass(L, key1, key2, end_item, item) ==
    IF item.next = end_item THEN [exit |-> TRUE, L |-> L, item |-> item]
    ELSE IF item.next # None /\ key2 < item.next
         THEN [exit |-> TRUE, L |-> L, item |-> item]
    ELSE LET r == read(L, key1, item.next)
         IN  [exit |-> FALSE, L |-> r.L, item |-> r.item]

\* the writes of append after its walk stopped at item
append_link(L, key1, key2, order_hash, item) ==
    LET new_prev == [item EXCEPT !.next = key2]
        L1       == write(L, key1, new_prev.price, new_prev)
        rn       == read(L1, key1, item.next)
        new_next == [rn.item EXCEPT !.prev = key2]
        L2       == write(rn.L, key1, new_next.price, new_next)
    IN  write(L2, key1, key2,
              [prev |-> new_prev.price, next |-> new_next.price,
               price |-> key2, orders |-> <<order_hash>>])

\* the records the ladder L holds for the pair key1, sentinels included
RecordsOf(L, key1) == Cardinality({k \in DOMAIN L : k[1] = key1})

\* the call in progress returns res; passes, prunes and walks count the
\* passes its three loops made
Returning(res) ==
    [fn |-> "create_limit_order", pc |-> "done", order |-> call.order, tp |-> call.tp,
     res |-> res, size |-> call.size,
     passes |-> call.passes, prunes |-> call.prunes, walks |-> call.walks]

\* create_limit_order up to the first pass of the matching loop: validation,
\* freeze, the writes of the order, read_head; a rejected call has no loop
\* and changes nothing
Begin(sender, base, quote, otype, price, sell_amount) ==
    /\ call = NoCall
    /\ OrdersPlaced < MaxOrders
    /\ ensure_trade_pair(Storage, base, quote)
    /\ ensure_bonds(price, sell_amount)
    /\ ensure_counterparty_amount_bonds(otype, price, sell_amount).ok
    /\ ensure_free_balance(Storage, sender, IF otype = "Buy" THEN base ELSE quote,
                           sell_amount)
    /\ do_freeze(Storage, sender, IF otype = "Buy" THEN base ELSE quote, sell_amount).ok
    /\ LET tp    == TradePairHashByBaseQuote[<<base, quote>>]
           order == LimitOrder_new(base, quote, sender, price, sell_amount,
                        ensure_counterparty_amount_bonds(otype, price, sell_amount).value,
                        otype, seed)
           f     == do_freeze(Storage, sender, IF otype = "Buy" THEN base ELSE quote,
                              sell_amount)
           s1    == store_order(f.s, sender, tp, order)
           h     == read_head(s1.LinkedItemList, tp)
       IN  call' = [fn |-> "create_limit_order", pc |-> "match", order |-> order,
                    tp |-> tp,
                    r |-> [ok |-> TRUE, s |-> with_ladder(s1, h.L), order |-> order,
                           err |-> ""],
                    head |-> h.item, size |-> RecordsOf(h.L, tp),
                    passes |-> 0, prunes |-> 0, walks |-> 0]
    /\ UNCHANGED <<storageVars, tokenVars, seed, last, log>>

\* a pass of the matching loop; when the loop is left with an Err the call
\* returns, otherwise the pruning starts; the count of passes is capped by
\* the size of the ladder at the start of the call
MatchPass ==
    /\ call.fn = "create_limit_order"
    /\ call.pc = "match"
    /\ call.passes < call.size
    /\ LET tp == call.r.s.TradePairsByHash[call.tp]
           x  == match_pass(call.r, call.tp, tp,
                            IF call.order.otype = "Buy" THEN tp.base ELSE tp.quote,
                            IF call.order.otype = "Buy" THEN tp.quote ELSE tp.base,
                            call.head)
       IN  call' = IF ~x.exit
                   THEN [call EXCEPT !.r = x.r, !.head = x.head, !.passes = @ + 1]
                   ELSE IF ~x.r.ok
                   THEN Returning(place_rest(match_prune(x.r, call.tp, call.order.otype),
                                             call.tp, call.order))
                   ELSE [fn |-> "create_limit_order", pc |-> "prune",
                         order |-> call.order, tp |-> call.tp, r |-> x.r,
                         L |-> x.r.s.LinkedItemList, size |-> call.size,
                         passes |-> call.passes, prunes |-> 0, walks |-> 0]
    /\ UNCHANGED <<storageVars, tokenVars, seed, last, log>>

\* the call after remove_items returned rm: a filled order and an order
\* whose level exists return without a walk
Pruned(rm) ==
    LET mp == match_pruned(call.r, rm)
    IN  IF mp.filled \/ Has(mp.s.LinkedItemList, <<call.tp, call.order.price>>)
        THEN Returning(place_rest(mp, call.tp, call.order))
        ELSE LET r0 == read(mp.s.LinkedItemList, call.tp,
                            IF call.order.otype = "Buy" THEN PMIN ELSE None)
             IN  [fn |-> "create_limit_order", pc |-> "walk", order |-> call.order,
                  tp |-> call.tp, mp |-> mp, L |-> r0.L, item |-> r0.item,
                  size |-> call.size,
                  passes |-> call.passes, prunes |-> call.prunes, walks |-> 0]

\* a pass of the pruning loop
PrunePass ==
    /\ call.fn = "create_limit_order"
    /\ call.pc = "prune"
    /\ call.prunes < call.size
    /\ LET x == remove_items_pass(call.L, call.r.s.Orders, call.tp,
                                  NotType(call.order.otype))
       IN  call' = IF ~x.exit THEN [call EXCEPT !.L = x.L, !.prunes = @ + 1]
                   ELSE Pruned([ok |-> x.ok, L |-> x.L])
    /\ UNCHANGED <<storageVars, tokenVars, seed, last, log>>

\* a pass of the insertion walk; when it stops the level is linked in
WalkPass ==
    /\ call.fn = "create_limit_order"
    /\ call.pc = "walk"
    /\ call.walks < call.size
    /\ LET x == append_pass(call.L, call.tp, call.order.price,
                            IF call.order.otype = "Buy" THEN None ELSE PMAX, call.item)
       IN  call' = IF ~x.exit THEN [call EXCEPT !.L = x.L, !.item = x.item,
                                                !.walks = @ + 1]
                   ELSE Returning(
                          [ok |-> TRUE,
                           s  |-> with_ladder(call.mp.s,
                                      append_link(x.L, call.tp, call.order.price,
                                                  call.order.hash, x.item)),
                           filled |-> FALSE, stopped |-> call.mp.stopped])
    /\ UNCHANGED <<storageVars, tokenVars, seed, last, log>>

\* the call returns: its writes are the storage
Return ==
    /\ call.fn = "create_limit_order"
    /\ call.pc = "done"
    /\ Becomes(call.res.s)
    /\ last' = [op |-> "create_limit_order", ok |-> call.res.ok,
                order |-> call.order.hash,
                filled |-> call.res.ok /\ call.res.filled,
                stopped |-> call.res.stopped,
                err |-> IF "err" \in DOMAIN call.res THEN call.res.err ELSE "",
                otype |-> call.order.otype]
    /\ call' = NoCall
    /\ UNCHANGED seed

\* create_trade_pair between calls
RegisterPair(sender, base, quote) ==
    /\ call = NoCall
    /\ CreateTradePair(sender, base, quote)

StepNext ==
    \/ \E sender \in Senders, base \in TokenInputs, quote \in TokenInputs :
          RegisterPair(sender, base, quote)
    \/ \E sender \in Accounts, base \in OrderBases, quote \in OrderQuotes,
          otype \in OrderTypes, price \in PriceInputs, sell_amount \in AmountInputs :
          Begin(sender, base, quote, otype, price, sell_amount)
    \/ MatchPass
    \/ PrunePass
    \/ WalkPass
    \/ Return

\* a dispatched call runs until it returns: every pass that can be taken is
\* taken
StepSpec ==
    /\ Init
    /\ [][StepNext]_vars
    /\ WF_vars(MatchPass) /\ WF_vars(PrunePass) /\ WF_vars(WalkPass) /\ WF_vars(Return)

(* ---------------------------------------------------------------------- *)
(* LinkedList::read called on the ladders the orders build                 *)
(* ---------------------------------------------------------------------- *)

\* create_limit_order between calls of read
PlaceOrder(sender, base, quote, otype, price, sell_amount) ==
    /\ call = NoCall
    /\ CreateLimitOrder(sender, base, quote, otype, price, sell_amount)

\* the hashes of the pairs create_trade_pair can register
ReadPairs == {PairHash(base, quote, 0, "alice", 0) : base \in Tokens, quote \in Tokens}

\* read(key1, Some(key2)) on the stored ladder, as any caller of the public
\* function can make it; call keeps the key, whether the key was stored, and
\* the item returned. A read ends the behaviour: the orders come before it
ReadLevel(key1, key2) ==
    /\ call = NoCall
    /\ Has(TradePairsByHash, key1)
    /\ LinkedItemList' = read(LinkedItemList, key1, key2).L
    /\ call' = [fn |-> "read", key1 |-> key1, key2 |-> key2,
                stored |-> Has(LinkedItemList, <<key1, key2>>),
                out |-> <<read(LinkedItemList, key1, key2).item>>]
    /\ UNCHANGED <<Orders, OwnedOrders, OwnedOrdersIndex, TradePairOwnedOrders,
                   TradePairOwnedOrdersIndex, TradePairsByHash, TradePairHashByBaseQuote,
                   Trades, OwnedTrades, OwnedTPTrades, TradePairOwnedTrades,
                   OrderOwnedTrades, Nonce, tokenVars, seed, last, log>>

ReadNext ==
    \/ \E sender \in Senders, base \in TokenInputs, quote \in TokenInputs :
          RegisterPair(sender, base, quote)
    \/ \E sender \in Accounts, base \in OrderBases, quote \in OrderQuotes,
          otype \in OrderTypes, price \in PriceInputs, sell_amount \in AmountInputs :
          PlaceOrder(sender, base, quote, otype, price, sell_amount)
    \/ \E key1 \in ReadPairs, key2 \in PriceInputs \ {0} :
          ReadLevel(key1, key2)

ReadSpec == Init /\ [][ReadNext]_vars

(* ---------------------------------------------------------------------- *)
(* Validation of a new order                                               *)
(* ---------------------------------------------------------------------- *)

\* the counterparty amount of the data model, in unbounded integers
Counterparty(otype, price, amount) ==
    IF otype = "Buy" THEN MulDiv(amount, price_factor, price)
                     ELSE MulDiv(amount, price, price_factor)

\* the inverse conversion recovers the amount exactly
RoundTrips(otype, price, amount) ==
    Counterparty(NotType(otype), price, Counterparty(otype, price, amount)) = amount

\* the inputs create_limit_order has to reject; the maximum of the
\* counterparty amount is the one the code compares with, u64::max_value()
RejectedInput(base, quote, otype, price, sell_amount) ==
    \/ ~Has(TradePairHashByBaseQuote, <<base, quote>>)
    \/ price = 0
    \/ sell_amount = 0
    \/ ~RoundTrips(otype, price, sell_amount)
    \/ Counterparty(otype, price, sell_amount) = 0
    \/ Counterparty(otype, price, sell_amount) > U64MAX

\* the call returns Err and leaves the storage and the balances as they were
Rejects(r) == ~r.ok /\ r.s = Storage

RejectedPrices == {0} \cup WidePriceInputs

RejectedAmounts == {0, U64MAX - 1} \cup WideAmountInputs

\* C11: create_limit_order returns an error and changes no state when the
\* pair (base, quote) is not registered in that orientation, when the price
\* or the sell amount is 0, when the round trip of the sell amount fails, or
\* when the counterparty amount is 0 or above the maximum
C11_RejectedOrder ==
    \A sender \in Accounts, base \in Tokens, quote \in Tokens, otype \in OrderTypes,
       price \in RejectedPrices, sell_amount \in RejectedAmounts :
        RejectedInput(base, quote, otype, price, sell_amount)
            => Rejects(create_limit_order(Storage, sender, base, quote, otype, price,
                                          sell_amount))

\* C13: the buy_amount of every stored order is the exact counterparty of its
\* full sell_amount at its price, and the division leaves no remainder, for
\* every sell_amount of the balance type, above the 64-bit range too
C13_ExactBuyAmount ==
    \A h \in DOMAIN Orders :
        /\ Orders[h].buy_amount
              = Counterparty(Orders[h].otype, Orders[h].price, Orders[h].sell_amount)
        /\ RoundTrips(Orders[h].otype, Orders[h].price, Orders[h].sell_amount)

(* ---------------------------------------------------------------------- *)
(* Conversion and trade sizing                                             *)
(* ---------------------------------------------------------------------- *)

\* a Buy conversion that was accepted and converted back
ConvertedBack == call.fn = "convert" /\ call.otype = "Buy" /\ Len(call.out) = 2

\* C12: for every amount x and price p for which the Buy conversion is
\* accepted with result c, the Sell conversion of c at p is accepted and
\* returns x
C12_ConversionRoundTrip ==
    ConvertedBack => (call.out[2].ok /\ call.out[2].value = call.amount)

\* the remainder of a * b1 / c1 is 0 exactly when that of (a % c1) * b1 is
HasRemainder(a, b1, c1) == ((a % c1) * b1) % c1 # 0

\* ceil(a * b / c) in unbounded integers
CeilMulDiv(a, b, c) ==
    MulDiv(a, b, c)
        + (IF HasRemainder(a, b \div GCD(b, c), c \div GCD(b, c)) THEN 1 ELSE 0)

\* calculate_ex_amount was called on the drawn orders
Sized == call.fn = "size" /\ call.out # << >>

BuyerOf(c) == IF c.otype = "Buy" THEN TakerOf(c) ELSE MakerOf(c)

SellerOf(c) == IF c.otype = "Buy" THEN MakerOf(c) ELSE TakerOf(c)

\* the seller's outstanding need is coverable by the buyer's budget
SellerFits(c) ==
    SellerOf(c).remained_buy_amount <= BuyerOf(c).remained_sell_amount

\* the other case in which a trade is sized
BuyerFits(c) ==
    /\ ~SellerFits(c)
    /\ BuyerOf(c).remained_buy_amount <= SellerOf(c).remained_sell_amount

\* the trade quantities by the formulas in unbounded integers
SizedExactly(c, r) ==
    /\ SellerFits(c) =>
          /\ r.ok
          /\ r.base = SellerOf(c).remained_buy_amount
          /\ r.quote = CeilMulDiv(SellerOf(c).remained_buy_amount, price_factor,
                                  c.maker_price)
    /\ BuyerFits(c) =>
          /\ r.ok
          /\ r.base = CeilMulDiv(BuyerOf(c).remained_buy_amount, c.maker_price,
                                 price_factor)
          /\ r.quote = BuyerOf(c).remained_buy_amount

\* C14: the products formed when sizing a trade are computed without
\* wrap-around for every remaining amount and price that validation admits,
\* so that the trade quantities equal the formulas in unbounded integers
C14_NoWrapAround ==
    Sized => /\ ~call.panic
             /\ ~ex_amount_overflows(MakerOf(call), TakerOf(call))
             /\ SizedExactly(call, call.out[1])

\* C15: calculate_ex_amount returns (S.rba, ceil(S.rba * price_factor /
\* M.price)) when S.rba <= B.rsa, otherwise (ceil(B.rba * M.price /
\* price_factor), B.rba) when B.rba <= S.rsa, for the seller S, the buyer B
\* and the maker M; the unit is added exactly when the division has a
\* remainder
C15_ExAmount ==
    Sized => (~call.panic /\ SizedExactly(call, call.out[1]))

(* ---------------------------------------------------------------------- *)
(* Trade pairs                                                             *)
(* ---------------------------------------------------------------------- *)

\* the pair lookup is defined for (a, b)
Registered(a, b) == Has(TradePairHashByBaseQuote, <<a, b>>)

\* C16: after any sequence of create_trade_pair calls the lookups for (a, b)
\* and (b, a) are never both defined, and a defined lookup is never replaced
\* by a different pair hash
C16_OnePairPerTokens ==
    [][/\ \A a \in TokenInputs, b \in TokenInputs :
             ~(Has(TradePairHashByBaseQuote', <<a, b>>)
               /\ Has(TradePairHashByBaseQuote', <<b, a>>))
       /\ \A k \in DOMAIN TradePairHashByBaseQuote :
             /\ k \in DOMAIN TradePairHashByBaseQuote'
             /\ TradePairHashByBaseQuote'[k] = TradePairHashByBaseQuote[k]]_vars

\* a pair is registered and calls were made after its creation
C16_Witness ==
    /\ \E a \in Tokens, b \in Tokens : Registered(a, b)
    /\ last.op = "create_limit_order"
    /\ seed > 0

\* the inputs create_trade_pair has to reject
RejectedPair(sender, base, quote) ==
    \/ base = quote
    \/ base \notin DOMAIN TokenOwner
    \/ quote \notin DOMAIN TokenOwner
    \/ (sender # TokenOwner[base] /\ sender # TokenOwner[quote])
    \/ Registered(base, quote)
    \/ Registered(quote, base)

\* the call returns Err and leaves the pair maps and the nonce as they were
RejectsPair(r) ==
    /\ ~r.ok
    /\ r.s.TradePairsByHash = TradePairsByHash
    /\ r.s.TradePairHashByBaseQuote = TradePairHashByBaseQuote
    /\ r.s.Nonce = Nonce

\* C17: create_trade_pair returns an error and leaves the pair maps and the
\* nonce unchanged when base = quote, when either token has no owner, when
\* the sender owns neither token, or when a pair exists for either
\* orientation
C17_RejectedPair ==
    \A sender \in Senders \cup Accounts, base \in TokenInputs, quote \in TokenInputs :
        RejectedPair(sender, base, quote)
            => RejectsPair(do_create_trade_pair(Storage, sender, base, quote))

\* a token owner asks for a pair whose opposite orientation is registered
C17_Witness ==
    \E base \in Tokens, quote \in Tokens :
        /\ base # quote
        /\ Registered(quote, base)
        /\ ~Registered(base, quote)
        /\ RejectsPair(do_create_trade_pair(Storage, TokenOwner[base], base, quote))

(* ---------------------------------------------------------------------- *)
(* Trade ledger                                                            *)
(* ---------------------------------------------------------------------- *)

\* the stored record of the trade of the fill f
TradeOf(f) == Trades[f.trade]

\* C18: every trade record carries the maker's price, the owners of the
\* maker and of the taker as maker and taker, and the taker's order type as
\* otype; the buyer is the taker's owner and the seller the maker's owner
\* when the taker is a Buy order, and the other way round when it is a Sell
C18_TradeRecord ==
    \A i \in DOMAIN log :
        /\ Has(Trades, log[i].trade)
        /\ TradeOf(log[i]).price = log[i].maker_price
        /\ TradeOf(log[i]).maker = log[i].maker_owner
        /\ TradeOf(log[i]).taker = log[i].taker_owner
        /\ TradeOf(log[i]).otype = log[i].taker_otype
        /\ log[i].taker_otype = "Buy" =>
              /\ TradeOf(log[i]).buyer = log[i].taker_owner
              /\ TradeOf(log[i]).seller = log[i].maker_owner
        /\ log[i].taker_otype = "Sell" =>
              /\ TradeOf(log[i]).seller = log[i].taker_owner
              /\ TradeOf(log[i]).buyer = log[i].maker_owner

\* a Sell taker of one account traded with a maker of another account at
\* the maker's price, which is not the taker's
C18_Witness ==
    \E i \in DOMAIN log :
        /\ log[i].taker_otype = "Sell"
        /\ log[i].maker_otype = "Buy"
        /\ log[i].taker_owner # log[i].maker_owner
        /\ log[i].taker_price # log[i].maker_price

\* the positions of the trade hash h in the list w
Positions(h, w) == {p \in DOMAIN w : w[p] = h}

Once(h, w) == Cardinality(Positions(h, w)) = 1

\* the index lists the trade of the fill f is pushed to
ListsOf(f) ==
    {GetVec(OrderOwnedTrades, f.taker), GetVec(OrderOwnedTrades, f.maker),
     GetVec(OwnedTrades, f.taker_owner), GetVec(OwnedTrades, f.maker_owner)}
    \cup {GetVec(TradePairOwnedTrades, tp) : tp \in DOMAIN TradePairsByHash}
    \cup {GetVec(OwnedTPTrades, <<f.taker_owner, tp>>) : tp \in DOMAIN TradePairsByHash}
    \cup {GetVec(OwnedTPTrades, <<f.maker_owner, tp>>) : tp \in DOMAIN TradePairsByHash}

\* every occurrence of the trade g in w comes before every one of h
Before(g, h, w) == \A p \in Positions(g, w), q \in Positions(h, w) : p < q

\* C19: the hash of each executed trade occurs exactly once in the trade
\* list of the pair, exactly once in the trade list of each of its two
\* orders, and exactly once in the account list and the (account, pair)
\* list of each of its accounts, and every list is in execution order
C19_TradeIndexed ==
    /\ \A i \in DOMAIN log : \A w \in ListsOf(log[i]) : Once(log[i].trade, w)
    /\ \A i \in DOMAIN log, j \in DOMAIN log :
          i < j => \A w \in ListsOf(log[i]) \cup ListsOf(log[j]) :
                      Before(log[i].trade, log[j].trade, w)

\* the list v is the head of the list w
IsPrefix(v, w) == Len(v) <= Len(w) /\ SubSeq(w, 1, Len(v)) = v

\* every list of the index m is the head of its list in n
GrowsAtTail(m, n) ==
    \A k \in DOMAIN m : k \in DOMAIN n /\ IsPrefix(m[k], n[k])

\* C20: a stored trade record never changes after it is inserted and is
\* never removed, and every trade index list only grows at its tail: the
\* list before any call is a prefix of the list after it
C20_AppendOnlyTrades ==
    [][/\ \A h \in DOMAIN Trades : h \in DOMAIN Trades' /\ Trades'[h] = Trades[h]
       /\ GrowsAtTail(OrderOwnedTrades, OrderOwnedTrades')
       /\ GrowsAtTail(OwnedTrades, OwnedTrades')
       /\ GrowsAtTail(OwnedTPTrades, OwnedTPTrades')
       /\ GrowsAtTail(TradePairOwnedTrades, TradePairOwnedTrades')]_vars

\* a call added one trade to a ledger and to index lists that held trades
\* of earlier calls
C20_Witness ==
    /\ Len(log) = 1
    /\ Cardinality(DOMAIN Trades) >= 2
    /\ \A w \in ListsOf(log[1]) : Len(w) >= 2 /\ w[Len(w)] = log[1].trade

(* ---------------------------------------------------------------------- *)
(* The taker after the matching pass                                       *)
(* ---------------------------------------------------------------------- *)

\* the hash h is the last of the queue of the level of price p of some pair
AtTailOfLevel(h, p) ==
    \E k \in DOMAIN LinkedItemList :
        /\ k[2] = p
        /\ Len(LinkedItemList[k].orders) > 0
        /\ LinkedItemList[k].orders[Len(LinkedItemList[k].orders)] = h

\* the hash h is in the queue of some stored level
InLadder(h) == \E k \in DOMAIN LinkedItemList : InSeq(h, LinkedItemList[k].orders)

\* C21: order_match returns true exactly when the stored status of the taker
\* is Filled, and after a successful create_limit_order the hash of the taker
\* is in the ladder, at the tail of the level of its price, exactly when its
\* status is not Filled
C21_RestsUnlessFilled ==
    AfterOrderOk =>
        /\ Has(Orders, last.order)
        /\ last.filled <=> Orders[last.order].status = "Filled"
        /\ Orders[last.order].status # "Filled" =>
              AtTailOfLevel(last.order, Orders[last.order].price)
        /\ Orders[last.order].status = "Filled" => ~InLadder(last.order)

(* ---------------------------------------------------------------------- *)
(* Sentinels and pruning                                                   *)
(* ---------------------------------------------------------------------- *)


\* the ladder L holds the three sentinels of the pair tp
HasSentinels(L, tp) == \A k \in SentinelKeys : Has(L, <<tp, k>>)

PrunedBothSides(tp) ==
    remove_items(remove_items(LinkedItemList, Orders, tp, "Buy").L, Orders, tp, "Sell").L

\* the ladder L holds, for the pair tp, the three sentinels as read creates
\* them and nothing else
OnlySentinels(L, tp) ==
    /\ {k[2] : k \in {x \in DOMAIN L : x[1] = tp}} = SentinelKeys
    /\ L[<<tp, PMIN>>] = BottomItem
    /\ L[<<tp, None>>] = HeadItem
    /\ L[<<tp, PMAX>>] = TopItem

\* every order placed on the pair tp is finished, and there is one
AllFinished(tp) ==
    /\ \E h \in DOMAIN Orders : TRUE
    /\ \A h \in DOMAIN Orders : is_finished(Orders[h])

\* C23: whenever every order placed on a pair has become finished and the
\* pruning has run on both sides, the ladder of the pair consists of exactly
\* the three sentinels with their initial field values: Bottom (prev PMAX,
\* next None), Head (prev PMIN, next PMAX), Top (prev None, next PMIN), all
\* with empty queues
C23_BackToSentinels ==
    \A tp \in LadderPairs :
        AllFinished(tp) => OnlySentinels(PrunedBothSides(tp), tp)

\* the stored orders with those of F marked Canceled
Marked(F) ==
    [h \in DOMAIN Orders |-> IF h \in F THEN [Orders[h] EXCEPT !.status = "Canceled"]
                                       ELSE Orders[h]]

QueuedHashes(tp) ==
    {h \in DOMAIN Orders : \E k \in DOMAIN LinkedItemList : k[1] = tp /\ InSeq(h, LinkedItemList[k].orders)}

EndOf(otype) == IF otype = "Buy" THEN PMIN ELSE PMAX

\* the keys of the records of the side otype that hold orders, from the one
\* next to Head outwards
SideLevels(tp, otype) ==
    SelectSeq(Walk(tp, None, EndOf(otype), IF otype = "Buy" THEN "prev" ELSE "next", LadderSize),
              LAMBDA k : k # None /\ k # Broken /\ (k = EndOf(otype) => LinkedItemList[<<tp, k>>].orders # <<>>))

AllDone(Ords, q) == \A i \in 1..Len(q) : is_finished(Ords[q[i]])

\* how many levels at the front of w hold finished orders only
RECURSIVE DoneLevels(_, _, _)
DoneLevels(Ords, tp, w) ==
    IF w = <<>> THEN 0
    ELSE IF AllDone(Ords, LinkedItemList[<<tp, w[1]>>].orders)
         THEN 1 + DoneLevels(Ords, tp, Tail(w))
         ELSE 0

\* q without the finished orders ahead of its first unfinished one
RECURSIVE FromFirstUnfinished(_, _)
FromFirstUnfinished(Ords, q) ==
    IF q = <<>> THEN q
    ELSE IF is_finished(Ords[q[1]]) THEN FromFirstUnfinished(Ords, Tail(q))
         ELSE q

\* R is the ladder that the claim describes for remove_items(tp, otype) on
\* the stored ladder, where w lists the levels of the side and the first n of
\* them hold finished orders only
PrunedAsClaimed(R, Ords, tp, otype, w, n) ==
    /\ {k \in DOMAIN R : k[1] = tp}
          = {k \in DOMAIN LinkedItemList : k[1] = tp} \ {<<tp, w[i]>> : i \in 1..n}
    /\ n < Len(w) =>
          /\ Has(R, <<tp, w[n + 1]>>)
          /\ R[<<tp, w[n + 1]>>].orders
                = FromFirstUnfinished(Ords, LinkedItemList[<<tp, w[n + 1]>>].orders)
    /\ \A k \in DOMAIN LinkedItemList :
          (k[1] = tp /\ k[2] # None /\ \A i \in 1..Len(w) : i <= n + 1 => k[2] # w[i])
              => /\ Has(R, k)
                 /\ R[k].orders = LinkedItemList[k].orders
                 /\ (k[2] # EndOf(otype) \/ n < Len(w)) => R[k] = LinkedItemList[k]

\* C24: remove_items(pair, side) removes, starting at the level next to Head
\* on that side, every level whose orders are all finished, and from the first
\* level that holds an unfinished order it removes exactly the finished
\* orders ahead of the first unfinished one; the remaining orders keep their
\* order, every level beyond it and the whole other side are unchanged
\* (for every stored ladder and every choice of finished orders in it)
C24_PrunesFinishedFront ==
    \A tp \in LadderPairs, otype \in OrderTypes :
        \A F \in SUBSET QueuedHashes(tp) :
            PrunedAsClaimed(remove_items(LinkedItemList, Marked(F), tp, otype).L, Marked(F),
                            tp, otype, SideLevels(tp, otype),
                            DoneLevels(Marked(F), tp, SideLevels(tp, otype)))

\* the pruning of the last call met an order that is not finished
PruneStopped == last.op = "create_limit_order" /\ last.stopped

\* C25 as stated: when the pruning that follows the matching pass meets a
\* non-finished order, the enclosing create_limit_order returns an error
C25_PruneErrorFatal == PruneStopped => ~last.ok

\* C25: when the pruning that follows the matching pass meets a non-finished
\* order, the pruning stops there, order_match drops the error and the
\* enclosing create_limit_order returns Ok; the order that stopped the
\* pruning stays at the front of the level next to Head on the side
\* opposite to the taker
C25_PruneErrorDropped ==
    PruneStopped =>
        /\ last.ok
        /\ Has(Orders, last.order)
        /\ \E tp \in LadderPairs :
              /\ SideLevels(tp, NotType(Orders[last.order].otype)) # <<>>
              /\ ~is_finished(Orders[LinkedItemList[<<tp,
                     SideLevels(tp, NotType(Orders[last.order].otype))[1]>>].orders[1]])

C25_Witness ==
    /\ PruneStopped
    /\ last.ok
    /\ log # <<>>

\* the record read creates for the sentinel key k
InitialSentinel(k) == IF k = None THEN HeadItem ELSE IF k = PMIN THEN BottomItem ELSE TopItem

ReadDone == call.fn = "read" /\ call.out # << >>

\* C26: for a pair with no stored ladder record, read(pair, k) for k in
\* {Head, Bottom, Top} returns the initial sentinel record for k and leaves
\* all three sentinels stored with their initial values
C26_ReadCreatesSentinels ==
    ReadDone =>
        /\ call.out[1] = InitialSentinel(call.key2)
        /\ OnlySentinels(LinkedItemList, FreshPair)

StatusRank(st) == IF st = "Created" THEN 0 ELSE IF st = "PartialFilled" THEN 1 ELSE 2

\* the record a of an order and the record b the next state holds for it
MovesForward(a, b) ==
    /\ StatusRank(a.status) <= StatusRank(b.status)
    /\ b.remained_sell_amount <= a.remained_sell_amount
    /\ b.remained_buy_amount <= a.remained_buy_amount

WithinAmounts(o) ==
    /\ o.remained_sell_amount <= o.sell_amount
    /\ o.remained_buy_amount <= o.buy_amount

\* C27: for every stored order over any sequence of calls, the status
\* changes only along Created -> PartialFilled -> Filled, never backwards,
\* and remained_sell_amount and remained_buy_amount never increase and never
\* exceed sell_amount and buy_amount
C27_OrdersMoveForward ==
    [][/\ \A h \in DOMAIN Orders :
             Has(Orders', h) /\ MovesForward(Orders[h], Orders'[h])
       /\ \A h \in DOMAIN Orders' : WithinAmounts(Orders'[h])]_vars

\* C28: every stored order has status Filled exactly when its
\* remained_buy_amount is 0, and a Filled order has remained_sell_amount 0
\* (the residual sell amount was unfrozen when it became Filled)
C28_FilledIffNothingToBuy ==
    \A h \in DOMAIN Orders :
        /\ Orders[h].status = "Filled" <=> Orders[h].remained_buy_amount = 0
        /\ Orders[h].status = "Filled" => Orders[h].remained_sell_amount = 0

C28_Witness ==
    \E i \in DOMAIN log :
        /\ log[i].taker_dust > 0
        /\ Has(Orders, log[i].taker)
        /\ Orders[log[i].taker].status = "Filled"
        /\ Orders[log[i].taker].remained_sell_amount = 0
        /\ \E h \in DOMAIN Orders :
              Orders[h].status = "PartialFilled" /\ Orders[h].remained_buy_amount > 0

\* the last call sized at least one trade
SizedATrade == last.op = "create_limit_order" /\ log # << >>

C30_BuyMeetsSell ==
    \A i \in DOMAIN log : log[i].maker_otype = NotType(log[i].taker_otype)

\* the step stores the order of a create_limit_order call
Placing == OrdersPlaced' = OrdersPlaced + 1

\* the pair, the price and the hash of the order the step places
PlacedPair == TradePairHashByBaseQuote[<<last'.order[2], last'.order[3]>>]

PlacedPrice == last'.order[4]

\* the price order_match takes first from Head for a taker of type otype,
\* before the step
BestOpposite(tp, otype) ==
    IF ~Has(LinkedItemList, <<tp, None>>) THEN EndOf(NotType(otype))
    ELSE next_match_price(LinkedItemList[<<tp, None>>], NotType(otype))

\* the opposite side is empty or the taker's price does not cross its best price
NoCross(tp, otype, price) ==
    \/ BestOpposite(tp, otype) = EndOf(NotType(otype))
    \/ ~price_matched(price, otype, BestOpposite(tp, otype))

\* no unfinished order of the other type that the price crosses is queued
\* anywhere in the ladder before the step
NoRestingCross(tp, otype, price) ==
    \A k \in DOMAIN LinkedItemList : \A i \in 1..Len(LinkedItemList[k].orders) :
        (/\ k[1] = tp
         /\ Has(Orders, LinkedItemList[k].orders[i])
         /\ ~is_finished(QueuedOrder(k, i))
         /\ QueuedOrder(k, i).otype = NotType(otype))
            => ~price_matched(price, otype, QueuedOrder(k, i).price)

\* the levels of the side otype before the step, sentinels left out
LevelKeys(tp, otype) ==
    {<<tp, SideLevels(tp, otype)[i]>> : i \in 1..Len(SideLevels(tp, otype))}
        \ {<<tp, k>> : k \in SentinelKeys}

\* h is the last hash of the queue that the ladder L holds at price p
AtTailIn(L, h, p) ==
    \E k \in DOMAIN L :
        k[2] = p /\ Len(L[k].orders) > 0 /\ L[k].orders[Len(L[k].orders)] = h

\* the placed order h rests untouched after the step
RestsUntouched(h) ==
    /\ last'.ok
    /\ Has(Orders', h)
    /\ Orders'[h].status = "Created"
    /\ Orders'[h].remained_sell_amount = Orders'[h].sell_amount
    /\ Orders'[h].remained_buy_amount = Orders'[h].buy_amount
    /\ AtTailIn(LinkedItemList', h, PlacedPrice)

\* C31: if the taker's price does not cross the best opposite price, or the
\* opposite side is empty, create_limit_order records no trade, changes no
\* other order and no level of the opposite side, and leaves the taker
\* resting with status Created and its full sell and buy amounts remaining
C31_NoCrossNoTrade ==
    [][(/\ Placing
        /\ NoCross(PlacedPair, last'.otype, PlacedPrice)
        /\ NoRestingCross(PlacedPair, last'.otype, PlacedPrice)) =>
          /\ log' = << >>
          /\ Trades' = Trades
          /\ \A h \in DOMAIN Orders \ {last'.order} : Orders'[h] = Orders[h]
          /\ \A k \in LevelKeys(PlacedPair, NotType(last'.otype)) :
                Has(LinkedItemList', k) /\ LinkedItemList'[k] = LinkedItemList[k]
          /\ RestsUntouched(last'.order)]_vars

\* C32: after every successful create_limit_order every stored non-sentinel
\* level has a non-empty queue and no queue contains a finished order: the
\* levels whose orders were all consumed by the matching pass have been
\* unlinked and deleted
C32_NoFinishedQueued ==
    AfterOrderOk =>
        \A k \in DOMAIN LinkedItemList :
            /\ k[2] \notin SentinelKeys => LinkedItemList[k].orders # << >>
            /\ \A i \in 1..Len(LinkedItemList[k].orders) :
                  /\ Has(Orders, LinkedItemList[k].orders[i])
                  /\ ~is_finished(QueuedOrder(k, i))

\* the call of Scenario A: Sell at price 18, sell_amount 200, on a fresh pair
ScenarioA ==
    /\ call.fn = "create_limit_order"
    /\ call.fresh
    /\ call.otype = "Sell"
    /\ call.price = 18
    /\ call.sell_amount = 200

ScenarioAOrder ==
    OrderHash(call.base, call.quote, 18, 200,
              ensure_counterparty_amount_bonds("Sell", 18, 200).value, call.sender, seed)

\* C33: with price_factor = 10^8, a Sell order with price 18 and sell_amount
\* 200 on a fresh pair is accepted: it rests at level 18, the best ask is 18,
\* no trade is recorded and 200 of the owner's sell-side token is frozen
C33_ScenarioAAccepted ==
    ScenarioA =>
        /\ call.ok
        /\ AtTailIn(LinkedItemList, ScenarioAOrder, 18)
        /\ \A k \in DOMAIN LinkedItemList : k[2] = None => LinkedItemList[k].next = 18
        /\ Trades = EmptyMap
        /\ frozen[<<call.sender, call.quote>>] = 200

\* C34: in every reachable state the Bottom, Head and Top records hold no
\* orders: no create_limit_order, at any admissible price, PMAX included,
\* places an order hash into the queue of a sentinel
C34_SentinelsHoldNoOrders ==
    \A k \in DOMAIN LinkedItemList :
        k[2] \in SentinelKeys => LinkedItemList[k].orders = << >>

\* C35: for every reachable book and every taker that passed validation and
\* had its funds frozen, the quantities of each trade stay within the
\* remaining amounts of both orders: none of the four checked subtractions
\* fails, so create_limit_order never returns 'substract error', also when
\* the taker's price is strictly better than the maker's
C35_NoSubtractError ==
    last.op = "create_limit_order" => last.err # "substract error"

\* C36: each successful create_limit_order stores its order under a hash that
\* is not yet present in the order store, so no existing order record is
\* overwritten, also when the same owner submits two orders with identical
\* pair, type, price and amount under the same random seed
C36_FreshOrderHash ==
    [][(Placing /\ last'.ok) =>
          /\ last'.order \notin DOMAIN Orders
          /\ \A h \in DOMAIN Orders : Orders'[h] = Orders[h]]_vars

\* C37: every recorded trade has base_amount > 0 and quote_amount > 0
C37_TradesPositive ==
    /\ \A h \in DOMAIN Trades : Trades[h].base_amount > 0 /\ Trades[h].quote_amount > 0
    /\ \A i \in DOMAIN log : log[i].base_amount > 0 /\ log[i].quote_amount > 0

InCall == call.fn = "create_limit_order"

\* C38: every create_limit_order call terminates on every reachable ladder:
\* the matching loop of order_match, the pruning loop of remove_items and the
\* insertion walk of append each finish after finitely many passes. With
\* size the number of records the pair's ladder holds when the call starts
\* (three of them sentinels), the matching loop makes at most one pass per
\* level and one for Top, the pruning loop and the walk at most one pass per
\* level; so no pass is ever withheld by the cap on the counts
C38_LoopsFinish ==
    InCall =>
        /\ call.passes <= call.size - 2
        /\ call.prunes <= call.size - 3
        /\ call.walks <= call.size - 3

\* a call returned Ok after its matching loop and its pruning loop each made
\* a pass
C38_Witness ==
    /\ InCall
    /\ call.pc = "done"
    /\ call.res.ok
    /\ call.passes >= 1
    /\ call.prunes >= 1

\* the pair's ladder holds Head, Bottom and Top
Initialized(key1) == \A k \in SentinelKeys : Has(LinkedItemList, <<key1, k>>)

\* a read of a price key that has no stored level, on an initialized ladder
ReadOfMissingLevel ==
    /\ call = NoCall
    /\ call'.fn = "read"
    /\ ~call'.stored
    /\ Initialized(call'.key1)

\* C39: on a pair whose ladder is already initialized, read(pair, key) for a
\* price key that has no stored level changes no stored record: Bottom, Top
\* and every existing level keep their prev, next and orders
C39_ReadChangesNothing ==
    [][ReadOfMissingLevel =>
          \A k \in DOMAIN LinkedItemList :
              /\ Has(LinkedItemList', k)
              /\ LinkedItemList'[k] = LinkedItemList[k]]_vars

====
